---- MODULE Spec2Model ----
(***************************************************************************)
(* A model of the water-quality evaluation and remediation logic of        *)
(* AquaLog: utils/validation.py, utils/chemistry.py, the tank and          *)
(* custom-range repositories and the tabs that call them.                  *)
(*                                                                         *)
(* Numbers.  A measured value, a range bound or a threshold is an integer  *)
(* number of hundredths of its unit (pH 7.6 is 760, 0.02 ppm is 2,         *)
(* 25.0 C is 2500).  Hours of the day and tank ids are plain integers.     *)
(*                                                                         *)
(* Python values.  The code is dynamically typed: an argument may be a     *)
(* number, None, the float NaN or a string.  A value is the record         *)
(* [k, n, s]: k is the kind, n the number, s the string.                   *)
(***************************************************************************)
EXTENDS Integers, Sequences, FiniteSets, TLC

None == [k |-> "none", n |-> 0, s |-> ""]
NaN == [k |-> "nan", n |-> 0, s |-> ""]
Num(x) == [k |-> "num", n |-> x, s |-> ""]
Str(x) == [k |-> "str", n |-> 0, s |-> x]

IsNum(v) == v.k = "num"

(***************************************************************************)
(* Bounds of the model.                                                    *)
(***************************************************************************)
MaxTank == 2

TankIds == 1..MaxTank

\* every hour of the day, and the hours a caller may pass that are no hour
Hours == 0..23
HourOrNone == {None} \cup {Num(h) : h \in Hours}

(***************************************************************************)
(* config.py                                                               *)
(***************************************************************************)
CO2_ON_SCHEDULE == <<9, 17>>

\* the catalog of parameters: seven numeric ones and the CO2 drop checker
NumericParams == {"temperature", "ammonia", "nitrite", "nitrate", "ph", "kh", "gh"}

AllParams == NumericParams \cup {"co2_indicator"}

\* SAFE_RANGES, as <<safe_low, safe_high>> in hundredths
SAFE_RANGES ==
    [p \in AllParams |->
        CASE p = "temperature"   -> <<1800, 2800>>
          [] p = "ammonia"       -> <<0, 0>>
          [] p = "nitrite"       -> <<0, 0>>
          [] p = "nitrate"       -> <<2000, 5000>>
          [] p = "ph"            -> <<600, 800>>
          [] p = "kh"            -> <<400, 800>>
          [] p = "gh"            -> <<600, 1000>>
          [] p = "co2_indicator" -> <<200, 200>>]

\* TOO_HIGH_THRESHOLDS["ammonia"], 0.02 ppm of unionized ammonia, in hundredths
TOO_HIGH_AMMONIA == 2

\* config.py, in hundredths; the indicator thresholds are plain numbers
TOO_LOW_THRESHOLDS ==
    [nitrate |-> 2000, kh |-> 400, ph |-> 600, co2_indicator |-> 200]

TOO_HIGH_THRESHOLDS ==
    [temperature |-> 2800, nitrite |-> 0, nitrate |-> 5000, ph |-> 800,
     kh |-> 800, gh |-> 1000, co2_indicator |-> 200, ammonia |-> TOO_HIGH_AMMONIA]

VARIABLES
    tanks,          \* table tanks: id -> row, for the ids that have a row
    nextTankId,     \* the AUTOINCREMENT sequence of tanks.id
    custom_ranges,  \* table custom_ranges: a set of rows
    last,           \* the last call made and what it returned or raised
    instances,      \* the number of repositories in BaseRepository._instances
    water_tests,    \* table water_tests: a set of rows
    records,        \* tables owned_plants, owned_fish, equipment and
                    \* maintenance_log: a set of rows [table, tank_id, item]
    session_state   \* st.session_state: the selected tank and the keys that
                    \* hold True

vars == <<tanks, nextTankId, custom_ranges, last, instances, water_tests, records, session_state>>

\* st.session_state of a session in which no tank is selected and no flag
\* or checkbox is set
NoSession == [tank_id |-> 0, truthy |-> {}]

TankRow(on, off, vol) == [co2_on_hour |-> on, co2_off_hour |-> off, volume_l |-> vol]

NoCall == [op |-> "none"]

\* the result of a call: a returned value, or the exception it raised
Ret(b) == [raised |-> "none", value |-> b]
Raise(e) == [raised |-> e, value |-> FALSE]

(***************************************************************************)
(* TankRepository                                                          *)
(***************************************************************************)
\* _validate_tank_id: a positive integer, else ValueError
ValidTankId(tank_id) == tank_id >= 1

\* get_by_id: the row of the tank, when it has one
HasTank(tank_id) == tank_id \in DOMAIN tanks

(***************************************************************************)
(* CustomRangeRepository                                                   *)
(***************************************************************************)
VALID_PARAMETERS == {"ph", "ammonia", "nitrite", "nitrate", "kh", "gh", "temperature"}

\* the rows of custom_ranges that the SELECT of get matches
CustomRangeRows(tank_id, parameter) ==
    {r \in custom_ranges : r.tank_id = tank_id /\ r.parameter = parameter}

\* get: <<safe_low, safe_high>> of the row fetched, or None when there is none
HasCustomRange(tank_id, parameter) == CustomRangeRows(tank_id, parameter) # {}

CustomRangeGet(tank_id, parameter) ==
    LET r == CHOOSE r \in CustomRangeRows(tank_id, parameter) : TRUE
    IN  <<r.safe_low, r.safe_high>>

(***************************************************************************)
(* utils/chemistry.py: nh3_fraction, in fixed point.                       *)
(* pKa and the exponent are in thousandths, 10^x is scaled by 1000, and    *)
(* the unionized concentration returned is in 1e-5 ppm.                    *)
(***************************************************************************)
\* 1000 * 10^(a/10), 1000 * 10^(b/100), 1000 * 10^(c/1000), for a digit 0..9
Pow10Tenths == <<1000, 1259, 1585, 1995, 2512, 3162, 3981, 5012, 6310, 7943>>
Pow10Hundredths == <<1000, 1023, 1047, 1072, 1096, 1122, 1148, 1175, 1202, 1230>>
Pow10Thousandths == <<1000, 1002, 1005, 1007, 1009, 1012, 1014, 1016, 1019, 1021>>

\* 10 ** x, x in thousandths, scaled by 1000
Pow10(x) ==
    LET q == x \div 1000
        r == x % 1000
        a == r \div 100
        b == (r % 100) \div 10
        c == r % 10
        f == (((Pow10Tenths[a + 1] * Pow10Hundredths[b + 1]) \div 1000)
                * Pow10Thousandths[c + 1]) \div 1000
    IN  IF q >= 0 THEN f * (10 ^ q) ELSE f \div (10 ^ (0 - q))

\* pka = 0.09018 + 2729.92 / (273.15 + temp_c), in thousandths
PKa(temp_c) == 90 + (272992000 \div (27315 + temp_c))

\* total_amm * 1 / (1 + 10 ** (pka - ph)), in 1e-5 ppm
NH3Fraction(total_amm, ph, temp_c) ==
    (total_amm * 1000000) \div (1000 + Pow10(PKa(temp_c) - ph * 10))

(***************************************************************************)
(* utils/validation.py: is_out_of_range, the co2_indicator branch          *)
(***************************************************************************)
\* the window test: [start, end) when start <= end, else wrapping midnight
IsOnPeriod_EndInclusive(on_hour_start, on_hour_end, current_hour) ==
    IF on_hour_start <= on_hour_end
    THEN on_hour_start <= current_hour /\ current_hour <= on_hour_end
    ELSE on_hour_start <= current_hour \/ current_hour <= on_hour_end

IsOnPeriod(on_hour_start, on_hour_end, current_hour) ==
    IF on_hour_start <= on_hour_end
    THEN on_hour_start <= current_hour /\ current_hour < on_hour_end
    ELSE on_hour_start <= current_hour \/ current_hour < on_hour_end

\* each hour taken from the tank when it is set, else from the default
ScheduleInUse_Combined(tank_id) ==
    LET custom_on_hour == IF HasTank(tank_id) THEN tanks[tank_id].co2_on_hour ELSE None
        custom_off_hour == IF HasTank(tank_id) THEN tanks[tank_id].co2_off_hour ELSE None
    IN  <<IF custom_on_hour # None THEN custom_on_hour.n ELSE CO2_ON_SCHEDULE[1],
          IF custom_off_hour # None THEN custom_off_hour.n ELSE CO2_ON_SCHEDULE[2]>>

\* the schedule used: the tank's own when both hours are set, else the default
ScheduleInUse(tank_id) ==
    LET custom_on_hour == IF HasTank(tank_id) THEN tanks[tank_id].co2_on_hour ELSE None
        custom_off_hour == IF HasTank(tank_id) THEN tanks[tank_id].co2_off_hour ELSE None
    IN  IF custom_on_hour # None /\ custom_off_hour # None
        THEN <<custom_on_hour.n, custom_off_hour.n>>
        ELSE CO2_ON_SCHEDULE

Co2Branch_NoTimeSuppressed(value, tank_id, test_time) ==
    IF value.k = "str"
    THEN IF value = Str("Blue")
         THEN IF test_time # None
              THEN IF ~ValidTankId(tank_id)
                   THEN Raise("ValueError")
                   ELSE LET sched == ScheduleInUse(tank_id)
                        IN  IF ~IsOnPeriod(sched[1], sched[2], test_time.n)
                            THEN Ret(FALSE)
                            ELSE Ret(value # Str("Green"))
              ELSE Ret(FALSE)
         ELSE IF value = Str("Yellow")
              THEN Ret(TRUE)
              ELSE Ret(FALSE)
    ELSE Ret(FALSE)

Co2Branch_YellowSuppressed(value, tank_id, test_time) ==
    IF value.k = "str"
    THEN IF value = Str("Blue") \/ value = Str("Yellow")
         THEN IF test_time # None
              THEN IF ~ValidTankId(tank_id)
                   THEN Raise("ValueError")
                   ELSE LET sched == ScheduleInUse(tank_id)
                        IN  IF ~IsOnPeriod(sched[1], sched[2], test_time.n)
                            THEN Ret(FALSE)
                            ELSE Ret(value # Str("Green"))
              ELSE Ret(value # Str("Green"))
         ELSE Ret(FALSE)
    ELSE Ret(FALSE)

Co2Branch(value, tank_id, test_time) ==
    IF value.k = "str"
    THEN IF value = Str("Blue")
         THEN IF test_time # None
              THEN \* TankRepository().get_by_id(tank_id) validates the id
                   IF ~ValidTankId(tank_id)
                   THEN Raise("ValueError")
                   ELSE LET sched == ScheduleInUse(tank_id)
                        IN  IF ~IsOnPeriod(sched[1], sched[2], test_time.n)
                            THEN Ret(FALSE)                  \* suppressed
                            ELSE Ret(value # Str("Green"))
              ELSE Ret(value # Str("Green"))
         ELSE IF value = Str("Yellow")
              THEN Ret(TRUE)
              ELSE Ret(FALSE)
    ELSE Ret(FALSE)

(***************************************************************************)
(* utils/validation.py: is_out_of_range, the ammonia branch and the        *)
(* range comparison                                                        *)
(***************************************************************************)
\* float(value): a number or NaN converts, None raises TypeError and a
\* string that is no number raises ValueError
FloatConverts(value) == value.k \in {"num", "nan"}

\* an operand the arithmetic of nh3_fraction accepts: a string raises TypeError
Arithmetic(v) == v.k \in {"num", "nan"}

\* taken when param is ammonia and value, ph and temp_c are all not None
AmmoniaBranch_AtLeast(value, ph, temp_c) ==
    IF ~FloatConverts(value) \/ ~Arithmetic(ph) \/ ~Arithmetic(temp_c)
    THEN Ret(FALSE)
    ELSE IF value = NaN \/ ph = NaN \/ temp_c = NaN
         THEN Ret(FALSE)
         ELSE Ret(NH3Fraction(value.n, ph.n, temp_c.n) >= TOO_HIGH_AMMONIA * 1000)

AmmoniaBranch_Uncaught(value, ph, temp_c) ==
    IF ~FloatConverts(value) \/ ~Arithmetic(ph) \/ ~Arithmetic(temp_c)
    THEN Raise("TypeError")
    ELSE IF value = NaN \/ ph = NaN \/ temp_c = NaN
         THEN Ret(FALSE)
         ELSE Ret(NH3Fraction(value.n, ph.n, temp_c.n) > TOO_HIGH_AMMONIA * 1000)

AmmoniaBranch(value, ph, temp_c) ==
    IF ~FloatConverts(value) \/ ~Arithmetic(ph) \/ ~Arithmetic(temp_c)
    THEN Ret(FALSE)                        \* except (TypeError, ValueError)
    ELSE IF value = NaN \/ ph = NaN \/ temp_c = NaN
         THEN Ret(FALSE)                   \* nan > threshold is False
         ELSE Ret(NH3Fraction(value.n, ph.n, temp_c.n) > TOO_HIGH_AMMONIA * 1000)

\* val < lo or val > hi: every comparison with NaN is False
OutsideRange_Exclusive(value, lo, hi) ==
    IF ~FloatConverts(value)
    THEN FALSE
    ELSE IF value = NaN
         THEN FALSE
         ELSE value.n <= lo \/ value.n >= hi

OutsideRange(value, lo, hi) ==
    IF ~FloatConverts(value)
    THEN FALSE                             \* except (TypeError, ValueError)
    ELSE IF value = NaN
         THEN FALSE
         ELSE value.n < lo \/ value.n > hi

\* the range in force: custom if custom else SAFE_RANGES.get(param)
ResolveRange_DefaultOnly(param, tank_id) == SAFE_RANGES[param]

ResolveRange_AnyTank(param, tank_id) ==
    IF \E t \in TankIds : HasCustomRange(t, param)
    THEN CustomRangeGet(CHOOSE t \in TankIds : HasCustomRange(t, param), param)
    ELSE SAFE_RANGES[param]

ResolveRange(param, tank_id) ==
    IF HasCustomRange(tank_id, param)
    THEN CustomRangeGet(tank_id, param)
    ELSE SAFE_RANGES[param]

RangeBranch_UnknownIgnored(param, value, tank_id) ==
    IF ~ValidTankId(tank_id)
    THEN Raise("ValueError")
    ELSE IF param \notin VALID_PARAMETERS
         THEN Ret(FALSE)
         ELSE LET range == ResolveRange(param, tank_id)
              IN  Ret(OutsideRange(value, range[1], range[2]))

RangeBranch(param, value, tank_id) ==
    IF ~ValidTankId(tank_id)
    THEN Raise("ValueError")               \* CustomRangeRepository._validate_tank_id
    ELSE IF param \notin VALID_PARAMETERS
         THEN Raise("ValueError")          \* CustomRangeRepository._validate_parameter
         ELSE LET range == ResolveRange(param, tank_id)
              IN  Ret(OutsideRange(value, range[1], range[2]))

\* the repositories one call constructs, each added to _instances by
\* BaseRepository.__init__: TankRepository() for a Blue reading given with
\* a test time, CustomRangeRepository() on the way to the range comparison
Constructed(param, value, ph, temp_c, test_time) ==
    IF param = "ammonia" /\ ph # None /\ temp_c # None /\ value # None
    THEN 0
    ELSE IF param = "co2_indicator"
         THEN IF value = Str("Blue") /\ test_time # None THEN 1 ELSE 0
         ELSE 1

IsOutOfRange_RangeFirst(param, value, tank_id, ph, temp_c, test_time) ==
    IF param = "ammonia" /\ ph # None /\ temp_c # None /\ value # None
       /\ ~HasCustomRange(tank_id, param)
    THEN AmmoniaBranch(value, ph, temp_c)
    ELSE IF param = "co2_indicator"
         THEN Co2Branch(value, tank_id, test_time)
         ELSE RangeBranch(param, value, tank_id)

IsOutOfRange(param, value, tank_id, ph, temp_c, test_time) ==
    IF param = "ammonia" /\ ph # None /\ temp_c # None /\ value # None
    THEN AmmoniaBranch(value, ph, temp_c)
    ELSE IF param = "co2_indicator"
         THEN Co2Branch(value, tank_id, test_time)
         ELSE RangeBranch(param, value, tank_id)

\* a call of is_out_of_range about to be made, with its arguments
Call(param, value, tank_id, ph, temp_c, test_time) ==
    [op |-> "call", param |-> param, value |-> value,
     tank_id |-> tank_id, ph |-> ph, temp_c |-> temp_c,
     test_time |-> test_time, raised |-> "none", result |-> FALSE]

\* the record kept of one call of is_out_of_range
Evaluation(param, value, tank_id, ph, temp_c, test_time) ==
    LET r == IsOutOfRange(param, value, tank_id, ph, temp_c, test_time)
    IN  [op |-> "is_out_of_range", param |-> param, value |-> value,
         tank_id |-> tank_id, ph |-> ph, temp_c |-> temp_c,
         test_time |-> test_time, raised |-> r.raised, result |-> r.value]

(***************************************************************************)
(* SpecCo2: the CO2 check as a function of the tank's stored schedule.     *)
(* Init draws the schedule of one tank from every pair the tanks table     *)
(* can hold (each hour unset or 0..23), or leaves that tank without a row. *)
(***************************************************************************)
Co2Values == {Str("Green"), Str("Blue"), Str("Yellow")}

InitCo2 ==
    /\ \E t \in TankIds, on \in HourOrNone, off \in HourOrNone, present \in BOOLEAN :
         /\ (~present) => (on = None /\ off = None)
         /\ tanks = [i \in (IF present THEN TankIds ELSE TankIds \ {t}) |->
                        IF i = t THEN TankRow(on, off, None)
                                 ELSE TankRow(None, None, None)]
    /\ nextTankId = MaxTank + 1
    /\ custom_ranges = {}
    /\ instances = 0
    /\ water_tests = {} /\ records = {} /\ session_state = NoSession
    /\ \E t \in TankIds, value \in Co2Values, test_time \in HourOrNone :
         last = Call("co2_indicator", value, t, None, None, test_time)

\* the call drawn is made, once
EvaluateCo2 ==
    /\ last.op = "call"
    /\ last' = Evaluation(last.param, last.value, last.tank_id,
                          last.ph, last.temp_c, last.test_time)
    /\ instances' = instances + Constructed(last.param, last.value, last.ph,
                                              last.temp_c, last.test_time)
    /\ UNCHANGED <<tanks, nextTankId, custom_ranges, water_tests, records, session_state>>

NextCo2 == EvaluateCo2

SpecCo2 == InitCo2 /\ [][NextCo2]_vars

IsCo2Call == last.op = "is_out_of_range" /\ last.param = "co2_indicator"

\* the stored hours of the tank of the last call, None when it has no row
StoredOn == IF HasTank(last.tank_id) THEN tanks[last.tank_id].co2_on_hour ELSE None
StoredOff == IF HasTank(last.tank_id) THEN tanks[last.tank_id].co2_off_hour ELSE None

\* C1: with a custom schedule (on, off) and a 'Blue' reading taken at clock
\* hour h, the reading counts as inside the window (and is reported) exactly
\* when on <= h < off for on <= off, and exactly when h >= on or h < off for
\* on > off; on = off is an empty window; (9,17) holds 9..16 and neither 8
\* nor 17; (22,6) holds 22, 23, 0..5 and none of 6..21.
C1_WindowExact ==
    (IsCo2Call /\ last.value = Str("Blue") /\ last.test_time # None
        /\ StoredOn # None /\ StoredOff # None)
    => LET on == StoredOn.n
           off == StoredOff.n
           h == last.test_time.n
           inside == last.raised = "none" /\ last.result
       IN  /\ (on <= off) => (inside <=> (on <= h /\ h < off))
           /\ (on > off) => (inside <=> (h >= on \/ h < off))
           /\ (on = off) => ~inside
           /\ inside <=> (((h - on) % 24) < ((off - on) % 24))
           /\ (on = 9 /\ off = 17) => (inside <=> h \in 9..16)
           /\ (on = 22 /\ off = 6) => (inside <=> h \in {22, 23} \cup 0..5)

C1_Witness ==
    /\ IsCo2Call /\ last.value = Str("Blue") /\ last.test_time = Num(5)
    /\ StoredOn = Num(22) /\ StoredOff = Num(6)
    /\ last.result

\* the schedule in force for the tank of the last call, stated on its own:
\* the tank's two hours when it has a row with both set, else (9, 17)
EffectiveOn == IF StoredOn # None /\ StoredOff # None THEN StoredOn.n ELSE 9
EffectiveOff == IF StoredOn # None /\ StoredOff # None THEN StoredOff.n ELSE 17
HourInEffectiveWindow(h) ==
    ((h - EffectiveOn) % 24) < ((EffectiveOff - EffectiveOn) % 24)

\* C2: a 'Blue' reading is reported as a fault unless a test time is given
\* and its hour is outside the tank's effective window, and then it is not
\* reported; without a test time 'Blue' is always reported.  With the
\* schedule (9,17), hour 3 is suppressed and hour 11 is reported.
C2_BlueSuppression ==
    (IsCo2Call /\ last.value = Str("Blue"))
    => /\ last.raised = "none"
       /\ last.result <=>
            ~(last.test_time # None /\ ~HourInEffectiveWindow(last.test_time.n))
       /\ (last.test_time = None) => last.result
       /\ (EffectiveOn = 9 /\ EffectiveOff = 17 /\ last.test_time = Num(3))
            => ~last.result
       /\ (EffectiveOn = 9 /\ EffectiveOff = 17 /\ last.test_time = Num(11))
            => last.result

C2_Witness ==
    /\ IsCo2Call /\ last.value = Str("Blue") /\ last.test_time = Num(3)
    /\ StoredOn = None /\ StoredOff = None
    /\ ~last.result

\* C3: 'Green' is never reported and 'Yellow' is always reported, whatever
\* the tank, its schedule and the test time.
C3_GreenYellow ==
    IsCo2Call
    => /\ (last.value = Str("Green")) => (last.raised = "none" /\ ~last.result)
       /\ (last.value = Str("Yellow")) => (last.raised = "none" /\ last.result)
       /\ (last.raised = "none" /\ ~last.result /\ last.value # Str("Green"))
            => last.value = Str("Blue")

C3_Witness ==
    /\ IsCo2Call /\ last.value = Str("Yellow") /\ last.test_time = Num(3)
    /\ StoredOn = Num(9) /\ StoredOff = Num(17)
    /\ last.result

(***************************************************************************)
(* The repositories' writes.  Every action is one call of a method; it     *)
(* records the call and its outcome in last, and whether a table changed.  *)
(***************************************************************************)
\* SchemaManager.init_tables: the tables are empty but for the Default Tank
InitDb ==
    /\ tanks = [i \in {1} |-> TankRow(None, None, None)]
    /\ nextTankId = 2
    /\ custom_ranges = {}
    /\ instances = 0
    /\ water_tests = {} /\ records = {} /\ session_state = NoSession
    /\ last = NoCall

\* the arguments tried: a name that is empty or not, a volume that is
\* absent or negative
NameArgs == {"", "Reef"}
VolumeArgs == {None, Num(0 - 100)}

\* TankRepository._validate_tank_input
ValidTankInput(name, volume_l) ==
    /\ name # ""
    /\ volume_l # None => volume_l.n >= 0

\* TankRepository.add
AddTank ==
    \E name \in NameArgs, volume_l \in VolumeArgs :
        /\ nextTankId <= MaxTank
        /\ IF ~ValidTankInput(name, volume_l)
           THEN /\ UNCHANGED <<tanks, nextTankId>>
                /\ last' = [op |-> "add", raised |-> "ValueError", changed |-> FALSE]
           ELSE /\ tanks' = [i \in DOMAIN tanks \cup {nextTankId} |->
                                IF i = nextTankId THEN TankRow(None, None, volume_l)
                                                  ELSE tanks[i]]
                /\ nextTankId' = nextTankId + 1
                /\ last' = [op |-> "add", raised |-> "none", changed |-> TRUE]
        /\ UNCHANGED <<custom_ranges, instances, water_tests, records, session_state>>

\* RemoveTank without the cascade: the child rows stay
Cascade_None(rows, tank_id) == rows

\* FOREIGN KEY (tank_id) REFERENCES tanks(id) ON DELETE CASCADE: the rows
\* left in a child table after DELETE FROM tanks WHERE id = tank_id
Cascade(rows, tank_id) ==
    IF HasTank(tank_id) THEN {r \in rows : r.tank_id # tank_id} ELSE rows

\* TankRepository.remove: DELETE FROM tanks on a connection that enforces
\* foreign keys; deleting the tank's row deletes, by ON DELETE CASCADE, the
\* rows of every table whose tank_id refers to it. When no tank has the id
\* no row of tanks is deleted and nothing cascades.
RemoveTank ==
    \E tank_id \in 0..MaxTank :
        IF ~ValidTankId(tank_id)
        THEN /\ UNCHANGED <<tanks, nextTankId, custom_ranges, instances, water_tests, records, session_state>>
             /\ last' = [op |-> "remove", tank_id |-> tank_id,
                         raised |-> "ValueError", changed |-> FALSE,
                         cascaded |-> 0]
        ELSE /\ tanks' = [i \in DOMAIN tanks \ {tank_id} |-> tanks[i]]
             /\ custom_ranges' = Cascade(custom_ranges, tank_id)
             /\ water_tests' = Cascade(water_tests, tank_id)
             /\ records' = Cascade(records, tank_id)
             /\ UNCHANGED <<nextTankId, instances, session_state>>
             /\ last' = [op |-> "remove", tank_id |-> tank_id, raised |-> "none",
                         changed |-> (tanks' # tanks \/ custom_ranges' # custom_ranges
                                      \/ water_tests' # water_tests
                                      \/ records' # records),
                         cascaded |-> Cardinality(custom_ranges \ custom_ranges')
                                      + Cardinality(water_tests \ water_tests')
                                      + Cardinality(records \ records')]

\* the hours tried: the first and the last hour of the day (23 to 0 wraps
\* midnight), one hour before the day and one after it, and no hour
HourArgs == {None} \cup {Num(h) : h \in {0 - 1, 0, 23, 24}}

\* the check of one hour argument of set_co2_schedule
HourAccepted_Ordered(on_hour, off_hour) ==
    /\ on_hour # None => (0 <= on_hour.n /\ on_hour.n <= 23)
    /\ off_hour # None => (0 <= off_hour.n /\ off_hour.n <= 23)
    /\ (on_hour # None /\ off_hour # None) => on_hour.n <= off_hour.n

HourAccepted_OnOnly(on_hour, off_hour) ==
    on_hour # None => (0 <= on_hour.n /\ on_hour.n <= 23)

HourAccepted(on_hour, off_hour) ==
    /\ on_hour # None => (0 <= on_hour.n /\ on_hour.n <= 23)
    /\ off_hour # None => (0 <= off_hour.n /\ off_hour.n <= 23)

\* the CHECK constraints of tanks.co2_on_hour and tanks.co2_off_hour
HourCheckConstraint(hour) == hour # None => (hour.n >= 0 /\ hour.n <= 23)

\* TankRepository.set_co2_schedule
SetCo2Schedule ==
    \E tank_id \in 0..MaxTank, on_hour \in HourArgs, off_hour \in HourArgs :
        LET call == [op |-> "set_co2_schedule", tank_id |-> tank_id,
                     on_hour |-> on_hour, off_hour |-> off_hour]
        IN
        /\ IF ~ValidTankId(tank_id) \/ ~HourAccepted(on_hour, off_hour)
           THEN /\ UNCHANGED tanks
                /\ last' = call @@ [raised |-> "ValueError", changed |-> FALSE]
           ELSE IF ~HasTank(tank_id)
           THEN \* the UPDATE matches no row
                /\ UNCHANGED tanks
                /\ last' = call @@ [raised |-> "none", changed |-> FALSE]
           ELSE IF ~HourCheckConstraint(on_hour) \/ ~HourCheckConstraint(off_hour)
           THEN \* sqlite3.IntegrityError: rolled back, RuntimeError
                /\ UNCHANGED tanks
                /\ last' = call @@ [raised |-> "RuntimeError", changed |-> FALSE]
           ELSE /\ tanks' = [tanks EXCEPT ![tank_id].co2_on_hour = on_hour,
                                          ![tank_id].co2_off_hour = off_hour]
                /\ last' = call @@ [raised |-> "none", changed |-> tanks' # tanks]
        /\ UNCHANGED <<nextTankId, custom_ranges, instances, water_tests, records, session_state>>

(***************************************************************************)
(* SpecSchedule: tanks are added and removed and their schedules set.      *)
(***************************************************************************)
NextSchedule == AddTank \/ RemoveTank \/ SetCo2Schedule

SpecSchedule == InitDb /\ [][NextSchedule]_vars

IsHourOfDay(v) == v # None /\ v.n \in 0..23

\* C9: set_co2_schedule accepts every pair of hours in 0..23, on_hour >
\* off_hour included, and then the tank that has a row holds exactly that
\* pair; a call with an hour outside 0..23 raises and leaves every stored
\* schedule as it was; every stored hour is unset or in 0..23.
C9_ScheduleHours ==
    /\ \A t \in DOMAIN tanks :
         /\ tanks[t].co2_on_hour = None \/ IsHourOfDay(tanks[t].co2_on_hour)
         /\ tanks[t].co2_off_hour = None \/ IsHourOfDay(tanks[t].co2_off_hour)
    /\ (last.op = "set_co2_schedule" /\ last.tank_id >= 1)
       => /\ (IsHourOfDay(last.on_hour) /\ IsHourOfDay(last.off_hour))
             => /\ last.raised = "none"
                /\ HasTank(last.tank_id)
                   => /\ tanks[last.tank_id].co2_on_hour = last.on_hour
                      /\ tanks[last.tank_id].co2_off_hour = last.off_hour
          /\ ((last.on_hour # None /\ ~IsHourOfDay(last.on_hour))
              \/ (last.off_hour # None /\ ~IsHourOfDay(last.off_hour)))
             => (last.raised = "ValueError" /\ ~last.changed)

C9_Witness ==
    /\ last.op = "set_co2_schedule" /\ last.raised = "none"
    /\ last.on_hour = Num(23) /\ last.off_hour = Num(0)
    /\ HasTank(last.tank_id)
    /\ tanks[last.tank_id].co2_on_hour = Num(23)
    /\ tanks[last.tank_id].co2_off_hour = Num(0)

(***************************************************************************)
(* CustomRangeRepository.set                                               *)
(***************************************************************************)
\* the distance between the values tried around a bound of a range
ValueStep == 50

\* the bounds tried for a custom range of a parameter: below the default
\* low, above the default low, and above the default high
BoundArgs(parameter) ==
    LET d == SAFE_RANGES[parameter]
    IN  {Num(d[1] - 2 * ValueStep), Num(d[1] + 2 * ValueStep), Num(d[2] + 2 * ValueStep)}

\* the parameters a range is set for: two it may be set for, one it may not
RangeParams == {"ph", "ammonia"}
RangeParamArgs == RangeParams \cup {"co2_indicator"}

\* _validate_range_values: both numbers, and high > low (NaN is a float, and
\* high <= low is False for it)
ValidRangeValues(low, high) ==
    /\ low.k \in {"num", "nan"}
    /\ high.k \in {"num", "nan"}
    /\ ~(IsNum(low) /\ IsNum(high) /\ high.n <= low.n)

CustomRangeRow(tank_id, parameter, low, high) ==
    [tank_id |-> tank_id, parameter |-> parameter,
     safe_low |-> low.n, safe_high |-> high.n]

\* INSERT ... ON CONFLICT(tank_id, parameter) DO UPDATE
Upsert(tank_id, parameter, low, high) ==
    {r \in custom_ranges : ~(r.tank_id = tank_id /\ r.parameter = parameter)}
        \cup {CustomRangeRow(tank_id, parameter, low, high)}

\* set: the exception raised, if any, and the rows of the table afterwards
CustomRangeSet_Swapping(tank_id, parameter, low, high) ==
    IF ~ValidTankId(tank_id) \/ parameter \notin VALID_PARAMETERS
    THEN [raised |-> "ValueError", rows |-> custom_ranges]
    ELSE IF ~HasTank(tank_id) \/ ~IsNum(low) \/ ~IsNum(high) \/ low = high
    THEN [raised |-> "RuntimeError", rows |-> custom_ranges]
    ELSE IF high.n < low.n
    THEN [raised |-> "none", rows |-> Upsert(tank_id, parameter, high, low)]
    ELSE [raised |-> "none", rows |-> Upsert(tank_id, parameter, low, high)]

CustomRangeSet(tank_id, parameter, low, high) ==
    IF ~ValidTankId(tank_id)
    THEN [raised |-> "ValueError", rows |-> custom_ranges]
    ELSE IF parameter \notin VALID_PARAMETERS
    THEN [raised |-> "ValueError", rows |-> custom_ranges]
    ELSE IF ~ValidRangeValues(low, high)
    THEN [raised |-> "ValueError", rows |-> custom_ranges]
    ELSE IF ~IsNum(low) \/ ~IsNum(high)
    THEN \* NaN is bound as NULL: NOT NULL constraint, rolled back
         [raised |-> "RuntimeError", rows |-> custom_ranges]
    ELSE IF ~(high.n > low.n)
    THEN \* CHECK(safe_high > safe_low), rolled back; the ValueError raised
         \* inside the connection context leaves it as a RuntimeError
         [raised |-> "RuntimeError", rows |-> custom_ranges]
    ELSE IF ~HasTank(tank_id)
    THEN \* FOREIGN KEY (tank_id) REFERENCES tanks(id), rolled back
         [raised |-> "RuntimeError", rows |-> custom_ranges]
    ELSE [raised |-> "none", rows |-> Upsert(tank_id, parameter, low, high)]

SetCustomRange ==
    \E tank_id \in 0..MaxTank, parameter \in RangeParamArgs :
      \E low \in BoundArgs(parameter), high \in BoundArgs(parameter) :
        LET out == CustomRangeSet(tank_id, parameter, low, high)
        IN  /\ custom_ranges' = out.rows
            /\ last' = [op |-> "set", tank_id |-> tank_id, parameter |-> parameter,
                        low |-> low, high |-> high, raised |-> out.raised,
                        changed |-> out.rows # custom_ranges]
            /\ UNCHANGED <<tanks, nextTankId, instances, water_tests, records, session_state>>

(***************************************************************************)
(* SpecRangeStore: tanks are added and removed and custom ranges set.      *)
(***************************************************************************)
NextRangeStore == AddTank \/ RemoveTank \/ SetCustomRange

SpecRangeStore == InitDb /\ [][NextRangeStore]_vars

\* C8: every stored custom range has high > low and no two rows share
\* (tank, parameter); a set with high <= low raises and changes no row (the
\* bounds are neither swapped nor clamped); after a set that returned, get
\* returns exactly the low and high passed.
C8_CustomRangeStore ==
    /\ \A r \in custom_ranges : r.safe_high > r.safe_low
    /\ \A r1, r2 \in custom_ranges :
         (r1.tank_id = r2.tank_id /\ r1.parameter = r2.parameter) => r1 = r2
    /\ (last.op = "set" /\ last.high.n <= last.low.n)
         => (last.raised # "none" /\ ~last.changed)
    /\ (last.op = "set" /\ last.raised = "none")
         => /\ HasCustomRange(last.tank_id, last.parameter)
            /\ CustomRangeGet(last.tank_id, last.parameter) = <<last.low.n, last.high.n>>

\* a set changed the pH range of a tank that also has an ammonia range
C8_Witness ==
    /\ last.op = "set" /\ last.raised = "none" /\ last.changed
    /\ last.parameter = "ph"
    /\ CustomRangeGet(last.tank_id, "ph") = <<last.low.n, last.high.n>>
    /\ last.high.n > last.low.n + 2 * ValueStep
    /\ HasCustomRange(last.tank_id, "ammonia")

(***************************************************************************)
(* SpecRanges: the numeric check as a function of the stored ranges.       *)
(* Init draws a custom_ranges table the repository can hold (rows with     *)
(* high > low, one per tank and parameter, of tanks that exist) and the    *)
(* arguments of one call.                                                  *)
(***************************************************************************)
\* the rows set can store for the tanks
StorableRows ==
    {CustomRangeRow(t, p, low, high) :
        t \in TankIds, p \in RangeParams, low \in UNION {BoundArgs(q) : q \in RangeParams},
        high \in UNION {BoundArgs(q) : q \in RangeParams}}

ValidRows ==
    {r \in StorableRows :
        /\ Num(r.safe_low) \in BoundArgs(r.parameter)
        /\ Num(r.safe_high) \in BoundArgs(r.parameter)
        /\ r.safe_high > r.safe_low}

OnePerKey(rows) ==
    \A r1, r2 \in rows :
        (r1.tank_id = r2.tank_id /\ r1.parameter = r2.parameter) => r1 = r2

\* the readings tried for a parameter: around the default bounds and around
\* the bounds a custom range may have
ValueArgs(param) ==
    LET d == SAFE_RANGES[param]
    IN  {None, NaN} \cup
        {Num(d[1] + k * ValueStep) : k \in {0 - 3, 0 - 2, 0 - 1, 0, 1, 2}} \cup
        {Num(d[2] + k * ValueStep) : k \in {0, 1, 2, 3}}

PhArgs == {None, NaN, Num(700), Num(800)}
TempArgs == {None, NaN, Num(2500)}

InitRanges ==
    /\ tanks = [i \in TankIds |-> TankRow(None, None, None)]
    /\ nextTankId = MaxTank + 1
    /\ custom_ranges \in {rows \in SUBSET ValidRows : OnePerKey(rows)}
    /\ instances = 0
    /\ water_tests = {} /\ records = {} /\ session_state = NoSession
    /\ \E param \in NumericParams, tank_id \in TankIds, ph \in PhArgs, temp_c \in TempArgs :
         \E value \in ValueArgs(param) :
           last = Call(param, value, tank_id, ph, temp_c, None)

EvaluateNumeric ==
    /\ last.op = "call"
    /\ last.param \in NumericParams
    /\ last' = Evaluation(last.param, last.value, last.tank_id,
                          last.ph, last.temp_c, last.test_time)
    /\ instances' = instances + Constructed(last.param, last.value, last.ph,
                                              last.temp_c, last.test_time)
    /\ UNCHANGED <<tanks, nextTankId, custom_ranges, water_tests, records, session_state>>

NextRanges == EvaluateNumeric

SpecRanges == InitRanges /\ [][NextRanges]_vars

IsNumericCall ==
    /\ last.op = "is_out_of_range"
    /\ last.param \in NumericParams
    /\ IsNum(last.value)

\* the call is decided by the unionized-ammonia rule
WithPhAndTemp == last.param = "ammonia" /\ last.ph # None /\ last.temp_c # None

RawOutside(range) == last.value.n < range[1] \/ last.value.n > range[2]

\* C4: an ammonia reading given with a pH and a temperature is out of range
\* exactly when total * f(pH, temp) exceeds 0.02 ppm, whatever the default
\* or the tank's custom ammonia range says about the raw value.
C4_AmmoniaToxicity ==
    (IsNumericCall /\ last.param = "ammonia" /\ IsNum(last.ph) /\ IsNum(last.temp_c))
        => /\ last.raised = "none"
           /\ last.result = (NH3Fraction(last.value.n, last.ph.n, last.temp_c.n) > 2000)

\* a reading above the default range and above the tank's custom range that
\* is within range because its unionized part is below the threshold
C4_Witness ==
    /\ IsNumericCall /\ last.param = "ammonia" /\ IsNum(last.ph) /\ IsNum(last.temp_c)
    /\ HasCustomRange(last.tank_id, "ammonia")
    /\ last.value.n > CustomRangeGet(last.tank_id, "ammonia")[2]
    /\ last.value.n > SAFE_RANGES["ammonia"][2]
    /\ ~last.result

\* one above the threshold is reached too
C4_WitnessToxic ==
    /\ IsNumericCall /\ last.param = "ammonia" /\ IsNum(last.ph) /\ IsNum(last.temp_c)
    /\ last.result

\* C6 as stated: for every numeric parameter with no custom range for the
\* tank, the reading is out of range exactly when it is below the default
\* low or above the default high.
C6_DefaultRange_AsStated ==
    (IsNumericCall /\ ~HasCustomRange(last.tank_id, last.param))
        => /\ last.raised = "none"
           /\ last.result = RawOutside(SAFE_RANGES[last.param])

\* C6: the same, for every call but an ammonia reading given with both a pH
\* and a temperature; a reading equal to either bound is within range.
C6_DefaultRange ==
    (IsNumericCall /\ ~HasCustomRange(last.tank_id, last.param) /\ ~WithPhAndTemp)
        => /\ last.raised = "none"
           /\ last.result = RawOutside(SAFE_RANGES[last.param])

\* a reading equal to the default low, of a parameter whose bounds differ,
\* was found within range
C6_Witness ==
    /\ IsNumericCall /\ ~HasCustomRange(last.tank_id, last.param) /\ ~WithPhAndTemp
    /\ last.value.n = SAFE_RANGES[last.param][1]
    /\ SAFE_RANGES[last.param][2] > SAFE_RANGES[last.param][1]
    /\ ~last.result

\* C7 as stated: when the tank has a custom range for the parameter, the
\* reading is out of range exactly when it is outside that range.
C7_CustomRange_AsStated ==
    (IsNumericCall /\ HasCustomRange(last.tank_id, last.param))
        => /\ last.raised = "none"
           /\ last.result = RawOutside(CustomRangeGet(last.tank_id, last.param))

\* C7: for every call but an ammonia reading given with both a pH and a
\* temperature, the tank's own custom range decides and the default does
\* not; a tank without one is decided by the default, whatever ranges the
\* other tanks have.
C7_CustomRange ==
    (IsNumericCall /\ ~WithPhAndTemp)
        => /\ last.raised = "none"
           /\ HasCustomRange(last.tank_id, last.param)
                => last.result = RawOutside(CustomRangeGet(last.tank_id, last.param))
           /\ (~HasCustomRange(last.tank_id, last.param)
               /\ \E t \in TankIds : HasCustomRange(t, last.param))
                => last.result = RawOutside(SAFE_RANGES[last.param])

\* a reading inside the default range and inside another tank's custom
\* range was found out of range by the tank's own custom range
C7_Witness ==
    /\ IsNumericCall /\ ~WithPhAndTemp
    /\ HasCustomRange(last.tank_id, last.param)
    /\ ~RawOutside(SAFE_RANGES[last.param])
    /\ \E t \in TankIds \ {last.tank_id} :
         /\ HasCustomRange(t, last.param)
         /\ ~RawOutside(CustomRangeGet(t, last.param))
    /\ last.result

(***************************************************************************)
(* The callers of is_out_of_range: the overview tab and the banner read    *)
(* the latest test as a dictionary (NULL is None); the warnings tab reads  *)
(* the tests through a DataFrame.                                          *)
(***************************************************************************)
\* the order in which the callers go through the parameters
ParamOrder == <<"ph", "ammonia", "nitrite", "nitrate", "temperature", "kh", "gh", "co2_indicator">>

\* is_out_of_range returned a truthy value
Flags(param, value, tank_id, ph, temp_c, test_time) ==
    LET r == IsOutOfRange(param, value, tank_id, ph, temp_c, test_time)
    IN  r.raised = "none" /\ r.value

\* overview_tab: the parameters of the latest test found out of range
\* (the tank has has_co2 set, so co2_indicator is among them)
OverviewFlagged(row, tank_id, hour) ==
    {p \in AllParams :
        /\ row[p] # None
        /\ Flags(p, row[p], tank_id, row["ph"], row["temperature"], Num(hour))}

\* show_out_of_range_banner: no test_time is passed, and the loop stops at
\* the first parameter found out of range
BannerFlags(row, tank_id, p) ==
    /\ row[p] # None
    /\ Flags(p, row[p], tank_id, row["ph"], row["temperature"], None)

BannerEvaluated(row, tank_id) ==
    {ParamOrder[i] : i \in {j \in 1..Len(ParamOrder) :
        /\ row[ParamOrder[j]] # None
        /\ \A k \in 1..(j - 1) : ~BannerFlags(row, tank_id, ParamOrder[k])}}

\* pd.read_sql: a NULL of a numeric column is NaN when the column holds a
\* number in another row of the frame, and None when the whole column is NULL
FrameRow(row, float_columns) ==
    [p \in AllParams |->
        IF row[p] = None /\ p \in NumericParams /\ float_columns THEN NaN ELSE row[p]]

\* warnings_tab: the parameters of one row found out of range
WarningsFlagged(frow, tank_id, hour) ==
    {p \in AllParams :
        /\ frow[p] # None
        /\ Flags(p, frow[p], tank_id, frow["ph"], frow["temperature"], Num(hour))}

\* the low and the high warnings of the row, classified by SAFE_RANGES
LowWarnings(frow, tank_id, hour) ==
    {p \in WarningsFlagged(frow, tank_id, hour) :
        IF p = "co2_indicator"
        THEN frow[p] = Str("Blue")
        ELSE IsNum(frow[p]) /\ frow[p].n < SAFE_RANGES[p][1]}

HighWarnings(frow, tank_id, hour) ==
    {p \in WarningsFlagged(frow, tank_id, hour) :
        IF p = "co2_indicator"
        THEN frow[p] = Str("Yellow")
        ELSE IsNum(frow[p]) /\ frow[p].n > SAFE_RANGES[p][2]}

(***************************************************************************)
(* SpecCallers: one stored water test shown by each caller.  Init draws    *)
(* the custom ranges as InitRanges does, and a row the water_tests table   *)
(* can hold.                                                               *)
(***************************************************************************)
RowArgs ==
    {[p \in AllParams |->
        CASE p = "ammonia"       -> amm
          [] p = "ph"            -> ph
          [] p = "temperature"   -> temp
          [] p = "co2_indicator" -> co2
          [] OTHER               -> None] :
        amm \in {None, Num(0), Num(ValueStep), Num(2 * ValueStep)},
        ph \in {None, Num(700), Num(800)},
        temp \in {None, Num(2500)},
        co2 \in {None, Str("Blue")}}

\* the hour of the test's date: one outside and one inside CO2_ON_SCHEDULE
RowHours == {3, 11}

InitCallers ==
    /\ tanks = [i \in TankIds |-> TankRow(None, None, None)]
    /\ nextTankId = MaxTank + 1
    /\ custom_ranges \in {rows \in SUBSET ValidRows : OnePerKey(rows)}
    /\ instances = 0
    /\ water_tests = {} /\ records = {} /\ session_state = NoSession
    /\ \E row \in RowArgs, tank_id \in TankIds, hour \in RowHours, float_columns \in BOOLEAN :
         last = [op |-> "latest_test", row |-> row, tank_id |-> tank_id,
                 hour |-> hour, float_columns |-> float_columns]

\* overview_tab: the delta message of a metric.  A parameter found out of
\* range is "Too Low" or "Too High" by the colour of the indicator or by
\* where a number lies against SAFE_RANGES, for the parameters that have a
\* threshold of that side; otherwise the message stays "Within Range".
OverviewLabel(param, value, is_o_o_r) ==
    IF ~is_o_o_r THEN "Within Range"
    ELSE IF param = "co2_indicator"
    THEN IF value = Str("Blue") THEN "Too Low"
         ELSE IF value = Str("Yellow") THEN "Too High"
         ELSE "Within Range"
    ELSE IF ~IsNum(value) THEN "Within Range"
    ELSE IF param \in DOMAIN TOO_LOW_THRESHOLDS /\ value.n < SAFE_RANGES[param][1]
    THEN "Too Low"
    ELSE IF param \in DOMAIN TOO_HIGH_THRESHOLDS /\ value.n > SAFE_RANGES[param][2]
    THEN "Too High"
    ELSE "Within Range"

Shown(op, evaluated, flagged, low, high) ==
    [op |-> op, row |-> last.row, tank_id |-> last.tank_id, hour |-> last.hour,
     float_columns |-> last.float_columns, evaluated |-> evaluated,
     flagged |-> flagged, low_warnings |-> low, high_warnings |-> high]

OverviewTab ==
    /\ last.op = "latest_test"
    /\ last' = Shown("overview_tab",
                     {p \in AllParams : last.row[p] # None},
                     OverviewFlagged(last.row, last.tank_id, last.hour), {}, {})
                 @@ [labels |->
                       [p \in {q \in AllParams : last.row[q] # None} |->
                          OverviewLabel(p, last.row[p],
                             p \in OverviewFlagged(last.row, last.tank_id, last.hour))]]
    \* TankRepository(), WaterTestRepository() and those of the calls
    /\ instances' = instances + 2 + Cardinality(
          {p \in AllParams :
              /\ last.row[p] # None
              /\ Constructed(p, last.row[p], last.row["ph"], last.row["temperature"],
                             Num(last.hour)) = 1})
    /\ UNCHANGED <<tanks, nextTankId, custom_ranges, water_tests, records, session_state>>

ShowOutOfRangeBanner ==
    /\ last.op = "latest_test"
    /\ last' = Shown("show_out_of_range_banner",
                     BannerEvaluated(last.row, last.tank_id),
                     {p \in BannerEvaluated(last.row, last.tank_id) :
                         BannerFlags(last.row, last.tank_id, p)}, {}, {})
    \* WaterTestRepository() and those of the calls
    /\ instances' = instances + 1 + Cardinality(
          {p \in BannerEvaluated(last.row, last.tank_id) :
              Constructed(p, last.row[p], last.row["ph"], last.row["temperature"],
                          None) = 1})
    /\ UNCHANGED <<tanks, nextTankId, custom_ranges, water_tests, records, session_state>>

\* utils/chemistry.py: the dose functions, volume in litres, the deficit in
\* hundredths of a degree, the dose in milligrams
\* volume_l * delta_kh * (1 / (80 * 2.8)) * 6 grams
calculate_alkaline_buffer_dose_PerTeaspoon(volume_l, delta_kh) ==
    (volume_l * delta_kh * 10) \div 224

calculate_alkaline_buffer_dose(volume_l, delta_kh) ==
    (volume_l * delta_kh * 60) \div 224

\* volume_l * delta_gh * (16 / (80 * 3)) grams
calculate_equilibrium_dose(volume_l, delta_gh) ==
    (volume_l * delta_gh * 160) \div 240

\* (volume_l / 38.0) * 119.0 or * 60.0 millilitres, in hundredths
FritzZyme7Ml(volume_l, is_new_system) ==
    IF is_new_system
    THEN (volume_l * 11900) \div 38
    ELSE (volume_l * 6000) \div 38

\* dose_ml / 29.5735 fluid ounces, in hundredths
FluidOunces(dose_ml) == (dose_ml * 10000) \div 295735

\* calculate_fritzzyme7_dose: <<dose_ml, dose_oz>>
calculate_fritzzyme7_dose(volume_l, is_new_system) ==
    <<FritzZyme7Ml(volume_l, is_new_system),
      FluidOunces(FritzZyme7Ml(volume_l, is_new_system))>>

\* warnings_tab, "Recommended Actions": the test "not volume_l or
\* volume_l <= 0" that shows the hint to set the volume.  None is falsy, so
\* it is never compared with 0.
VolumeMissing_Unguarded(volume_l) ==
    IF ~IsNum(volume_l) THEN Raise("TypeError") ELSE Ret(volume_l.n <= 0)

VolumeMissing(volume_l) ==
    IF volume_l = None THEN Ret(TRUE)
    ELSE IF volume_l = NaN THEN Ret(FALSE)
    ELSE IF ~IsNum(volume_l) THEN Raise("TypeError")
    ELSE Ret(volume_l.n <= 0)

\* "volume_l and volume_l > 0"
CanDose(volume_l) == IsNum(volume_l) /\ volume_l.n > 0

\* max(0, x)
Max0(x) == IF x > 0 THEN x ELSE 0

\* the dose appended to the plan of a low warning, in mg, for the low
\* warnings that get one: KH and GH, from the deficit to SAFE_RANGES
LowDoses(frow, low_warnings, volume_l) ==
    [p \in {q \in low_warnings \cap {"kh", "gh"} : CanDose(volume_l) /\ IsNum(frow[q])} |->
        IF p = "kh"
        THEN calculate_alkaline_buffer_dose(volume_l.n,
                                            Max0(SAFE_RANGES["kh"][1] - frow[p].n))
        ELSE calculate_equilibrium_dose(volume_l.n,
                                        Max0(SAFE_RANGES["gh"][1] - frow[p].n))]

\* the FritzZyme 7 dose inserted in the plan of a high ammonia or nitrite
HighDoses(frow, high_warnings, volume_l) ==
    [p \in {q \in high_warnings \cap {"ammonia", "nitrite"} :
                CanDose(volume_l) /\ IsNum(frow[q])} |->
        calculate_fritzzyme7_dose(volume_l.n, TRUE)]

\* what "Recommended Actions" shows for one test with warnings
Remediation(frow, low_warnings, high_warnings, volume_l) ==
    IF low_warnings \cup high_warnings = {}
    THEN [raised |-> "none", volume_hint |-> FALSE, low_doses |-> <<>>,
          high_doses |-> <<>>]
    ELSE IF VolumeMissing(volume_l).raised # "none"
    THEN [raised |-> VolumeMissing(volume_l).raised, volume_hint |-> FALSE,
          low_doses |-> <<>>, high_doses |-> <<>>]
    ELSE [raised |-> "none", volume_hint |-> VolumeMissing(volume_l).value,
          low_doses |-> LowDoses(frow, low_warnings, volume_l),
          high_doses |-> HighDoses(frow, high_warnings, volume_l)]

WarningsTab ==
    /\ last.op = "latest_test"
    /\ LET frow == FrameRow(last.row, last.float_columns)
           low == LowWarnings(frow, last.tank_id, last.hour)
           high == HighWarnings(frow, last.tank_id, last.hour)
           volume_l == tanks[last.tank_id].volume_l
       IN  last' = Shown("warnings_tab",
                         {p \in AllParams : frow[p] # None},
                         WarningsFlagged(frow, last.tank_id, last.hour), low, high)
                     @@ [volume_l |-> volume_l]
                     @@ Remediation(frow, low, high, volume_l)
    /\ LET frow == FrameRow(last.row, last.float_columns)
       IN  instances' = instances + Cardinality(
             {p \in AllParams :
                 /\ frow[p] # None
                 /\ Constructed(p, frow[p], frow["ph"], frow["temperature"],
                                Num(last.hour)) = 1})
    /\ UNCHANGED <<tanks, nextTankId, custom_ranges, water_tests, records, session_state>>

NextCallers == OverviewTab \/ ShowOutOfRangeBanner \/ WarningsTab

SpecCallers == InitCallers /\ [][NextCallers]_vars

\* a caller evaluated an ammonia reading of a test whose pH or temperature
\* is NULL
AmmoniaWithoutPhOrTemp ==
    /\ last.op \in {"overview_tab", "show_out_of_range_banner", "warnings_tab"}
    /\ "ammonia" \in last.evaluated
    /\ IsNum(last.row["ammonia"])
    /\ (last.row["ph"] = None \/ last.row["temperature"] = None)

\* C5: when the pH or the temperature of the test is NULL, every caller
\* finds the ammonia reading out of range exactly when the raw value is
\* outside the tank's resolved range (custom, else default).
C5_AmmoniaFallback ==
    AmmoniaWithoutPhOrTemp =>
        (("ammonia" \in last.flagged)
            = LET range == ResolveRange("ammonia", last.tank_id)
              IN  last.row["ammonia"].n < range[1] \/ last.row["ammonia"].n > range[2])

\* the fallback on the paths that pass None: the overview tab, the banner,
\* and the warnings tab when the NULL column is read as None
C5_FallbackWhenNone ==
    (AmmoniaWithoutPhOrTemp /\ ~(last.op = "warnings_tab" /\ last.float_columns))
        => (("ammonia" \in last.flagged)
              = LET range == ResolveRange("ammonia", last.tank_id)
                IN  last.row["ammonia"].n < range[1] \/ last.row["ammonia"].n > range[2])

\* the warnings tab, reading a NULL pH or temperature as NaN, never finds
\* the ammonia reading out of range
C5_NaNNeverFlagged ==
    (AmmoniaWithoutPhOrTemp /\ last.op = "warnings_tab" /\ last.float_columns)
        => "ammonia" \notin last.flagged

\* the warnings tab showed a test with ammonia above the default range and
\* no pH, and did not flag it
C5_NaNWitness ==
    /\ AmmoniaWithoutPhOrTemp /\ last.op = "warnings_tab" /\ last.float_columns
    /\ last.row["ammonia"].n > SAFE_RANGES["ammonia"][2]
    /\ ~HasCustomRange(last.tank_id, "ammonia")

(***************************************************************************)
(* The dosing functions of utils/chemistry.py.  Volumes are in litres,     *)
(* hardness differences in hundredths of a degree, doses in milligrams     *)
(* (rounded down).                                                         *)
(***************************************************************************)
\* the number of steps the volumes and the differences tried go up to
MaxDoseStep == 4

VolumeLitres == {25 * k : k \in 0..MaxDoseStep} \cup {76}
DeltaArgs == {50 * k : k \in (0 - MaxDoseStep)..MaxDoseStep}

InitDose ==
    /\ tanks = [i \in {1} |-> TankRow(None, None, None)]
    /\ nextTankId = 2
    /\ custom_ranges = {}
    /\ instances = 0
    /\ water_tests = {} /\ records = {} /\ session_state = NoSession
    /\ \/ \E fn \in {"calculate_alkaline_buffer_dose", "calculate_equilibrium_dose"},
             volume_l \in VolumeLitres, delta \in DeltaArgs :
            last = [op |-> "dose_call", fn |-> fn, volume_l |-> volume_l, delta |-> delta]
       \/ \E volume_l \in VolumeLitres, is_new_system \in BOOLEAN :
            last = [op |-> "dose_call", fn |-> "calculate_fritzzyme7_dose",
                    volume_l |-> volume_l, is_new_system |-> is_new_system]

Dose(fn, result) ==
    [op |-> fn, volume_l |-> last.volume_l, delta |-> last.delta,
     raised |-> "none", result |-> result]

AlkalineBufferDose ==
    /\ last.op = "dose_call"
    /\ last.fn = "calculate_alkaline_buffer_dose"
    /\ last' = Dose(last.fn, calculate_alkaline_buffer_dose(last.volume_l, last.delta))
    /\ UNCHANGED <<tanks, nextTankId, custom_ranges, instances, water_tests, records, session_state>>

EquilibriumDose ==
    /\ last.op = "dose_call"
    /\ last.fn = "calculate_equilibrium_dose"
    /\ last' = Dose(last.fn, calculate_equilibrium_dose(last.volume_l, last.delta))
    /\ UNCHANGED <<tanks, nextTankId, custom_ranges, instances, water_tests, records, session_state>>

FritzZyme7Dose ==
    /\ last.op = "dose_call"
    /\ last.fn = "calculate_fritzzyme7_dose"
    /\ LET r == calculate_fritzzyme7_dose(last.volume_l, last.is_new_system)
       IN  last' = [op |-> last.fn, volume_l |-> last.volume_l,
                    is_new_system |-> last.is_new_system, raised |-> "none",
                    dose_ml |-> r[1], dose_oz |-> r[2]]
    /\ UNCHANGED <<tanks, nextTankId, custom_ranges, instances, water_tests, records, session_state>>

NextDose == AlkalineBufferDose \/ EquilibriumDose \/ FritzZyme7Dose

SpecDose == InitDose /\ [][NextDose]_vars

IsDose == last.op \in {"calculate_alkaline_buffer_dose", "calculate_equilibrium_dose"}

\* C10: a dosing function called with a difference that is zero or negative
\* returns zero for every volume: it does not raise and the dose is never
\* negative.
C10_NoDoseWhenNotNeeded ==
    (IsDose /\ last.delta <= 0) => (last.raised = "none" /\ last.result = 0)

\* what the functions do with such a difference: they do not raise, return
\* zero when the difference or the volume is zero, and a negative dose when
\* the difference is negative and the volume is not zero
C10_NegativeDose ==
    (IsDose /\ last.delta <= 0)
        => /\ last.raised = "none"
           /\ (last.delta = 0 \/ last.volume_l = 0) => last.result = 0
           /\ (last.delta < 0 /\ last.volume_l > 0) => last.result < 0

\* 100 litres and a difference of -2 degrees
C10_NegativeWitness ==
    /\ last.op = "calculate_alkaline_buffer_dose"
    /\ last.volume_l = 100 /\ last.delta = 0 - 200
    /\ last.result < 0 - 5357
    /\ last.result >= 0 - 5358

\* x is n / d rounded down
IsQuotient(x, n, d) == d * x <= n /\ n < d * (x + 1)

\* C11: for a positive difference the doses are the fixed linear formulas:
\* alkaline buffer volume x delta x 6 / (80 x 2.8) g, remineralizer
\* volume x delta x 16 / (80 x 3) g, nitrifying culture volume / 38 x 119 ml
\* (new) or x 60 ml (established) with fluid ounces = ml / 29.5735; 100 L
\* and 2 degrees give 5.357 g and 13.333 g, a new 76 L system 238 ml, 8.05 oz.
C11_DoseFormulas ==
    /\ (last.op = "calculate_alkaline_buffer_dose" /\ last.delta > 0)
         => /\ last.raised = "none"
            \* milligrams = 1000 * volume * (delta / 100) * 6 / (80 * 2.8)
            /\ IsQuotient(last.result, last.volume_l * last.delta * 6 * 1000, 80 * 28 * 10)
            /\ (last.volume_l = 100 /\ last.delta = 200) => last.result = 5357
    /\ (last.op = "calculate_equilibrium_dose" /\ last.delta > 0)
         => /\ last.raised = "none"
            /\ IsQuotient(last.result, last.volume_l * last.delta * 16 * 10, 80 * 3)
            /\ (last.volume_l = 100 /\ last.delta = 200) => last.result = 13333
    /\ last.op = "calculate_fritzzyme7_dose"
         => /\ last.raised = "none"
            /\ IsQuotient(last.dose_ml,
                          last.volume_l * (IF last.is_new_system THEN 119 ELSE 60) * 100, 38)
            /\ IsQuotient(last.dose_oz, last.dose_ml * 10000, 295735)
            /\ (last.volume_l = 76 /\ last.is_new_system)
                 => (last.dose_ml = 23800 /\ last.dose_oz \in {804, 805})

\* the three examples of the claim were computed
C11_Witness ==
    \/ /\ last.op = "calculate_alkaline_buffer_dose"
       /\ last.volume_l = 100 /\ last.delta = 200 /\ last.result = 5357
    \/ /\ last.op = "calculate_equilibrium_dose"
       /\ last.volume_l = 100 /\ last.delta = 200 /\ last.result = 13333

(***************************************************************************)
(* _is_tank_cycled (tabs/cycle_tab.py) on the history of one tank, read    *)
(* through a DataFrame in ascending date order.                            *)
(***************************************************************************)
\* the longest history tried
MaxHistory == 4

CycleRow(ammonia, nitrite, nitrate) ==
    [ammonia |-> ammonia, nitrite |-> nitrite, nitrate |-> nitrate]

\* the readings tried: one that passes every test (ammonia and nitrite at
\* the safe high, nitrate present), and the ones that differ from it in one
\* column by a NULL or by a value that fails the test
CycleRows ==
    {CycleRow(Num(SAFE_RANGES["ammonia"][2]), Num(SAFE_RANGES["nitrite"][2]), Num(500))}
    \cup {CycleRow(a, Num(SAFE_RANGES["nitrite"][2]), Num(500)) :
            a \in {None, Num(SAFE_RANGES["ammonia"][2] + 25)}}
    \cup {CycleRow(Num(SAFE_RANGES["ammonia"][2]), n, Num(500)) :
            n \in {None, Num(SAFE_RANGES["nitrite"][2] + 25)}}
    \cup {CycleRow(Num(SAFE_RANGES["ammonia"][2]), Num(SAFE_RANGES["nitrite"][2]), n) :
            n \in {None, Num(0)}}

Histories == UNION {[1..n -> CycleRows] : n \in 0..MaxHistory}

\* pd.read_sql_query: the value of a column in a row of the frame; a NULL is
\* NaN in a column that holds a number somewhere, None in a column of NULLs
ColumnValue(df, i, col) ==
    IF df[i][col] # None
    THEN df[i][col]
    ELSE IF \E j \in 1..Len(df) : df[j][col] # None THEN NaN ELSE None

\* series <= bound, elementwise: False for NaN
AtMost(v, bound) == IsNum(v) /\ v.n <= bound

\* the indexes of df.tail(3)
Tail3_Head(df) == 1..3

Tail3(df) == (Len(df) - 2)..Len(df)

\* The two series comparisons are elementwise and give False for a NULL,
\* be it NaN or None.  last_test['nitrate'] > 0 compares one value: NaN
\* gives False, and None, which is what a column of NULLs holds, raises.
is_tank_cycled(df) ==
    IF Len(df) < 3
    THEN Ret(FALSE)
    ELSE IF ColumnValue(df, Len(df), "nitrate") = None
         THEN Raise("TypeError")        \* None > 0
         ELSE Ret(/\ \A i \in Tail3(df) :
                        AtMost(ColumnValue(df, i, "ammonia"), SAFE_RANGES["ammonia"][2])
                  /\ \A i \in Tail3(df) :
                        AtMost(ColumnValue(df, i, "nitrite"), SAFE_RANGES["nitrite"][2])
                  /\ IsNum(ColumnValue(df, Len(df), "nitrate"))
                  /\ ColumnValue(df, Len(df), "nitrate").n > 0)

InitCycle ==
    /\ tanks = [i \in {1} |-> TankRow(None, None, None)]
    /\ nextTankId = 2
    /\ custom_ranges = {}
    /\ instances = 0
    /\ water_tests = {} /\ records = {} /\ session_state = NoSession
    /\ \E df \in Histories : last = [op |-> "cycle_call", df |-> df]

IsTankCycled ==
    /\ last.op = "cycle_call"
    /\ LET r == is_tank_cycled(last.df)
       IN  last' = [op |-> "_is_tank_cycled", df |-> last.df,
                    raised |-> r.raised, result |-> r.value]
    /\ UNCHANGED <<tanks, nextTankId, custom_ranges, instances, water_tests, records, session_state>>

NextCycle == IsTankCycled

SpecCycle == InitCycle /\ [][NextCycle]_vars

\* the reading at place k from the end of the history (1 is the most recent)
FromEnd(k) == last.df[Len(last.df) + 1 - k]

\* C12: _is_tank_cycled returns true exactly when the history has at least
\* 3 readings, ammonia and nitrite are at or below their safe high (0) in
\* each of the last 3, and the nitrate of the most recent one is above zero;
\* with fewer than 3 readings it returns false.
C12_Cycled ==
    last.op = "_is_tank_cycled"
        => /\ (last.raised = "none" /\ last.result)
                = /\ Len(last.df) >= 3
                  /\ \A k \in 1..3 :
                        /\ IsNum(FromEnd(k).ammonia) /\ FromEnd(k).ammonia.n <= 0
                        /\ IsNum(FromEnd(k).nitrite) /\ FromEnd(k).nitrite.n <= 0
                  /\ IsNum(FromEnd(1).nitrate) /\ FromEnd(1).nitrate.n > 0
           /\ Len(last.df) < 3 => (last.raised = "none" /\ ~last.result)

\* a history of four whose oldest reading has ammonia above the safe high
\* was found cycled
C12_Witness ==
    /\ last.op = "_is_tank_cycled"
    /\ Len(last.df) = 4
    /\ IsNum(last.df[1].ammonia) /\ last.df[1].ammonia.n > 0
    /\ last.raised = "none" /\ last.result

(***************************************************************************)
(* is_out_of_range at its boundary: malformed readings, unknown parameter  *)
(* names and a database that fails.                                        *)
(***************************************************************************)
\* custom_range_repo.get(tank_id, param) and the comparison that follows:
\* the arguments are validated, then fetch_one turns an sqlite3.Error into a
\* RuntimeError, which is_out_of_range does not catch
RangeBranchWhen_Swallowed(db_error, param, value, tank_id) ==
    IF db_error /\ ValidTankId(tank_id) /\ param \in VALID_PARAMETERS
    THEN Ret(OutsideRange(value, SAFE_RANGES[param][1], SAFE_RANGES[param][2]))
    ELSE RangeBranch(param, value, tank_id)

RangeBranchWhen(db_error, param, value, tank_id) ==
    IF db_error /\ ValidTankId(tank_id) /\ param \in VALID_PARAMETERS
    THEN Raise("RuntimeError")
    ELSE RangeBranch(param, value, tank_id)

\* TankRepository().get_by_id(tank_id) of the CO2 branch reads the database too
Co2BranchWhen(db_error, value, tank_id, test_time) ==
    IF db_error /\ value = Str("Blue") /\ test_time # None /\ ValidTankId(tank_id)
    THEN Raise("RuntimeError")
    ELSE Co2Branch(value, tank_id, test_time)

\* is_out_of_range when the database fails (db_error) or not
IsOutOfRangeWhen(db_error, param, value, tank_id, ph, temp_c, test_time) ==
    IF param = "ammonia" /\ ph # None /\ temp_c # None /\ value # None
    THEN AmmoniaBranch(value, ph, temp_c)
    ELSE IF param = "co2_indicator"
         THEN Co2BranchWhen(db_error, value, tank_id, test_time)
         ELSE RangeBranchWhen(db_error, param, value, tank_id)

\* a parameter name outside the catalog
ParamArgs == AllParams \cup {"salinity"}

\* the values tried: missing, NaN, a string that is no number, a good and a
\* bad reading; for the indicator a colour, an unknown colour and a number
EntryValues(param) ==
    IF param = "co2_indicator"
    THEN {None, Str("Blue"), Str("Purple"), Num(1)}
    ELSE IF param \in NumericParams
         THEN {None, NaN, Str("abc"), Num(SAFE_RANGES[param][1]),
               Num(SAFE_RANGES[param][2] + ValueStep)}
         ELSE {None, Str("abc"), Num(ValueStep)}

EntryPhArgs == {None, NaN, Str("abc"), Num(700)}
EntryTempArgs == {None, Str("abc"), Num(2500)}

InitEntry ==
    /\ tanks = [i \in TankIds |-> TankRow(None, None, None)]
    /\ nextTankId = MaxTank + 1
    /\ custom_ranges \in {{}} \cup {{r} : r \in ValidRows}
    /\ instances = 0
    /\ water_tests = {} /\ records = {} /\ session_state = NoSession
    /\ \E param \in ParamArgs, tank_id \in 0..MaxTank, ph \in EntryPhArgs,
          temp_c \in EntryTempArgs, test_time \in {None, Num(3)}, db_error \in BOOLEAN :
         \E value \in EntryValues(param) :
           last = Call(param, value, tank_id, ph, temp_c, test_time)
                    @@ [db_error |-> db_error]

EvaluateEntry ==
    /\ last.op = "call"
    /\ LET r == IsOutOfRangeWhen(last.db_error, last.param, last.value, last.tank_id,
                                 last.ph, last.temp_c, last.test_time)
       IN  last' = [last EXCEPT !.op = "is_out_of_range",
                                !.raised = r.raised, !.result = r.value]
    /\ instances' = instances + Constructed(last.param, last.value, last.ph,
                                            last.temp_c, last.test_time)
    /\ UNCHANGED <<tanks, nextTankId, custom_ranges, water_tests, records, session_state>>

NextEntry == EvaluateEntry

SpecEntry == InitEntry /\ [][NextEntry]_vars

\* a call for a catalog parameter and a tank id that is one, with the
\* database at work
SoundCall ==
    /\ last.op = "is_out_of_range"
    /\ last.param \in AllParams
    /\ ValidTankId(last.tank_id)
    /\ ~last.db_error

\* the value is missing or is no number (for the indicator: no known colour)
Malformed(param, value) ==
    IF param = "co2_indicator"
    THEN value \notin {Str("Green"), Str("Blue"), Str("Yellow")}
    ELSE ~IsNum(value)

\* C13: is_out_of_range never raises because of the reading's data: a value
\* that is missing or is no number, and for ammonia a pH or temperature that
\* is given but is no number, gives a returned result that is no fault.
C13_MalformedNeverRaises ==
    SoundCall
        => /\ last.raised = "none"
           /\ Malformed(last.param, last.value) => ~last.result
           /\ (/\ last.param = "ammonia"
               /\ last.ph # None /\ last.temp_c # None
               /\ (~IsNum(last.ph) \/ ~IsNum(last.temp_c)))
                => ~last.result

\* an ammonia reading above the default range given with a pH that is a
\* string was evaluated, and so was a pH reading that is a string
C13_Witness ==
    /\ SoundCall
    /\ \/ /\ last.param = "ammonia" /\ IsNum(last.value)
          /\ last.value.n > SAFE_RANGES["ammonia"][2]
          /\ last.ph = Str("abc") /\ IsNum(last.temp_c)
       \/ /\ last.param = "ph" /\ last.value = Str("abc")
    /\ ~last.result

ReachesLookup ==
    /\ last.op = "is_out_of_range"
    /\ ValidTankId(last.tank_id)
    /\ last.param \in VALID_PARAMETERS
    /\ ~(last.param = "ammonia" /\ last.ph # None /\ last.temp_c # None
         /\ last.value # None)

\* C15: when the lookup of the custom range fails with a database error the
\* error leaves is_out_of_range: no result is returned, and none is computed
\* from the default range.
C15_StoreFailurePropagates ==
    (ReachesLookup /\ last.db_error) => last.raised = "RuntimeError"

\* the lookup failed for a reading that is above the default range
C15_Witness ==
    /\ ReachesLookup /\ last.db_error
    /\ IsNum(last.value) /\ last.value.n > SAFE_RANGES[last.param][2]
    /\ last.raised = "RuntimeError"

(***************************************************************************)
(* Repeated evaluation: one stored configuration, one reading evaluated    *)
(* again and again, other readings evaluated in between.                   *)
(***************************************************************************)
MaxCalls == 3

\* tank 1 injects over midnight, tank 2 follows the default schedule
RepeatTanks ==
    [i \in TankIds |-> IF i = 1 THEN TankRow(Num(22), Num(6), None)
                                ELSE TankRow(None, None, None)]

InitRepeat ==
    /\ tanks = RepeatTanks
    /\ nextTankId = MaxTank + 1
    /\ custom_ranges \in {{}} \cup {{r} : r \in ValidRows}
    /\ instances = 0
    /\ water_tests = {} /\ records = {} /\ session_state = NoSession
    /\ \E param \in AllParams, tank_id \in TankIds, ph \in {None, Num(700)},
          temp_c \in {None, Num(2500)}, test_time \in {None, Num(3)} :
         \E value \in EntryValues(param) :
           last = Call(param, value, tank_id, ph, temp_c, test_time)
                    @@ [calls |-> 0, others |-> 0, first |-> Ret(FALSE)]

\* is_out_of_range called once more with the same arguments
Reevaluate ==
    /\ last.op \in {"call", "is_out_of_range"}
    /\ last.calls + last.others < MaxCalls
    /\ LET r == IsOutOfRange(last.param, last.value, last.tank_id,
                             last.ph, last.temp_c, last.test_time)
       IN  last' = [last EXCEPT !.op = "is_out_of_range",
                                !.raised = r.raised, !.result = r.value,
                                !.calls = @ + 1,
                                !.first = IF last.calls = 0 THEN r ELSE @]
    /\ instances' = instances + Constructed(last.param, last.value, last.ph,
                                            last.temp_c, last.test_time)
    /\ UNCHANGED <<tanks, nextTankId, custom_ranges, water_tests, records, session_state>>

\* is_out_of_range called for another reading of the same tank; its result
\* goes to its caller and is not kept
EvaluateOther ==
    /\ last.op \in {"call", "is_out_of_range"}
    /\ last.calls + last.others < MaxCalls
    /\ \E param \in AllParams :
         \E value \in EntryValues(param) :
           /\ <<param, value>> # <<last.param, last.value>>
           /\ instances' = instances + Constructed(param, value, last.ph,
                                                   last.temp_c, last.test_time)
    /\ last' = [last EXCEPT !.others = @ + 1]
    /\ UNCHANGED <<tanks, nextTankId, custom_ranges, water_tests, records, session_state>>

NextRepeat == Reevaluate \/ EvaluateOther

SpecRepeat == InitRepeat /\ [][NextRepeat]_vars

\* every evaluation of the reading returned what the first one returned
SameResult ==
    (last.op = "is_out_of_range")
        => (last.raised = last.first.raised /\ last.result = last.first.value)

\* C16: evaluation is deterministic and idempotent: every call with the same
\* arguments under the same configuration gives the result of the first,
\* whatever was evaluated in between, and a call after the first leaves
\* behind no state that was not there before it.
C16_Idempotent ==
    [][/\ last'.op = "is_out_of_range"
          => (last'.raised = last'.first.raised /\ last'.result = last'.first.value)
       /\ (last.calls + last.others >= 1) => instances' = instances]_vars

\* the same numeric reading evaluated three times: the same result each
\* time, and three repositories in the registry
C16_Witness ==
    /\ last.op = "is_out_of_range"
    /\ last.param = "ph" /\ IsNum(last.value)
    /\ last.calls = MaxCalls
    /\ last.raised = "none" /\ last.result = last.first.value
    /\ instances = MaxCalls

(***************************************************************************)
(* utils/chemistry.py: nh3_fraction in decimal floating point.  A float is *)
(* m * 10^e with eight significant digits (10^7 <= m < 10^8), or zero;     *)
(* every operation truncates to eight digits, as a double does to 53 bits. *)
(***************************************************************************)
PhStep == 100
TempStep == 500

\* pH 0..14 and 0..40 C, in hundredths
PhGrid == {p \in 0..1400 : p % PhStep = 0} \cup {1400}
TempGrid == {t \in 0..4000 : t % TempStep = 0} \cup {4000}
TotalArgs == {0, 25, 100, 800}

Zero == [m |-> 0, e |-> 0]

RECURSIVE Normalise(_, _)
Normalise(n, e) ==
    IF n = 0 THEN Zero
    ELSE IF n >= 100000000 THEN Normalise(n \div 10, e + 1)
    ELSE IF n < 10000000 THEN Normalise(n * 10, e - 1)
    ELSE [m |-> n, e |-> e]

\* a * 10^k, truncated
Shift(a, k) == IF k >= 0 THEN a * (10 ^ k) ELSE a \div (10 ^ (0 - k))

LessEq(a, b) ==
    IF a.m = 0 THEN TRUE
    ELSE IF b.m = 0 THEN FALSE
    ELSE a.e < b.e \/ (a.e = b.e /\ a.m <= b.m)

Less(a, b) == LessEq(a, b) /\ a # b

\* the exponent pka - ph, in thousandths
Exponent_Swapped(ph, temp_c) == ph * 10 - PKa(temp_c)

Exponent(ph, temp_c) == PKa(temp_c) - ph * 10

\* 1 + 10 ** x, x in thousandths
OnePlusPow10(x) ==
    LET q == x \div 1000
        f == Pow10(x % 1000)
    IN  IF q <= 0
        THEN Normalise(10000000 + Shift(f, q + 4), 0 - 7)
        ELSE Normalise(f * 10000 + Shift(1, 7 - q), q - 7)

\* the digits of 10^8 * 10^k / m, by long division
RECURSIVE Quotient(_, _, _, _)
Quotient(q, r, m, k) ==
    IF k = 0 THEN q
    ELSE Quotient(q * 10 + (r * 10) \div m, (r * 10) % m, m, k - 1)

\* 1 / d
Reciprocal(d) ==
    Normalise(Quotient(100000000 \div d.m, 100000000 % d.m, d.m, 7), 0 - 15 - d.e)

Digits(n) == IF n < 10 THEN 1 ELSE IF n < 100 THEN 2 ELSE 3

\* total_amm * frac, total_amm in hundredths of ppm (below 1000)
Times(total_amm, frac) ==
    LET k == Digits(total_amm)
        hi == frac.m \div 10000
        lo == frac.m % 10000
        a == total_amm * hi + (total_amm * lo) \div 10000
        b == (total_amm * lo) % 10000
    IN  Normalise(Shift(a, 4 - k) + Shift(b, 0 - k), frac.e + k)

\* total_amm * (1 / (1 + 10 ** (pka - ph))), in hundredths of ppm
nh3_fraction(total_amm, ph, temp_c) ==
    Times(total_amm, Reciprocal(OnePlusPow10(Exponent(ph, temp_c))))

InitNh3 ==
    /\ tanks = [i \in TankIds |-> TankRow(None, None, None)]
    /\ nextTankId = MaxTank + 1
    /\ custom_ranges = {}
    /\ instances = 0
    /\ water_tests = {} /\ records = {} /\ session_state = NoSession
    /\ \E total_amm \in TotalArgs, ph \in PhGrid, temp_c \in TempGrid :
         \E ph_above \in {p \in PhGrid : p >= ph},
            temp_above \in {t \in TempGrid : t >= temp_c} :
           last = [op |-> "nh3_call", total_amm |-> total_amm, ph |-> ph,
                   temp_c |-> temp_c, ph_above |-> ph_above,
                   temp_above |-> temp_above]

\* nh3_fraction at the point drawn, at a pH above it and at a temperature
\* above it
Nh3Fraction ==
    /\ last.op = "nh3_call"
    /\ last' = [last EXCEPT !.op = "nh3_fraction"]
                 @@ [result |-> nh3_fraction(last.total_amm, last.ph, last.temp_c),
                     at_ph_above |-> nh3_fraction(last.total_amm, last.ph_above, last.temp_c),
                     at_temp_above |-> nh3_fraction(last.total_amm, last.ph, last.temp_above)]
    /\ UNCHANGED <<tanks, nextTankId, custom_ranges, instances, water_tests, records, session_state>>

NextNh3 == Nh3Fraction

SpecNh3 == InitNh3 /\ [][NextNh3]_vars

MaxSaves == 2

\* a key the dictionary does not hold
Absent == [k |-> "absent", n |-> 0, s |-> ""]

VALID_CO2_INDICATORS == {Str("Green"), Str("Blue"), Str("Yellow")}

\* WaterTestRepository.VALID_PARAMETERS, in hundredths
SaveRanges ==
    [ph |-> <<0, 1400>>, ammonia |-> <<0, 10000>>, nitrite |-> <<0, 10000>>,
     nitrate |-> <<0, 10000>>, temperature |-> <<0, 4000>>,
     kh |-> <<0, 3000>>, gh |-> <<0, 3000>>]

NumericFields == DOMAIN SaveRanges

\* what the log form submits when nothing is changed in it
FormDefaults ==
    [date |-> Str("2026-01-01T10:00:00"),
     ph |-> Num(760), ammonia |-> Num(0), nitrite |-> Num(0), nitrate |-> Num(0),
     kh |-> Num(400), gh |-> Num(800), co2_indicator |-> Str("Green"),
     temperature |-> Num(2600)]

\* the values tried for one numeric field: no key, None, the empty string,
\* text, a value inside the accepted range and one above it
FieldArgs(field) ==
    {Absent, None, Str(""), Str("abc"), Num(SaveRanges[field][2]),
     Num(SaveRanges[field][2] + 100)}

Co2Args == {Absent, None, Str("Green"), Str("Purple")}

\* the records tried: the defaults of the form with the indicator replaced
\* and one of pH and GH replaced
DataArgs ==
    {[[FormDefaults EXCEPT ![field] = v] EXCEPT !.co2_indicator = c] :
        field \in {"ph", "gh"}, v \in FieldArgs("ph") \cup FieldArgs("gh"),
        c \in Co2Args}

\* _validate_input
ValidateInput(data, tank_id) ==
    IF tank_id < 1 THEN "ValueError"
    ELSE IF data.date # Absent /\ data.date.k # "str" THEN "ValueError"
    ELSE IF data.co2_indicator # Absent
            /\ data.co2_indicator \notin VALID_CO2_INDICATORS THEN "ValueError"
    ELSE "none"

\* the text tried that float() converts, with its value in hundredths
NumericText == [s \in {"7.5"} |-> 750]

\* float(raw_value): the number, NaN for NaN, and None here when the
\* conversion raises ValueError or TypeError
FloatOf(raw_value) ==
    IF raw_value.k \in {"num", "nan"} THEN raw_value
    ELSE IF raw_value.k = "str" /\ raw_value.s \in DOMAIN NumericText
    THEN Num(NumericText[raw_value.s])
    ELSE None

\* the range test with the upper bound left out
FieldAccepted_Exclusive(field, raw_value) ==
    \/ raw_value \in {Absent, None, Str("")}
    \/ /\ IsNum(FloatOf(raw_value))
       /\ SaveRanges[field][1] <= FloatOf(raw_value).n
       /\ FloatOf(raw_value).n < SaveRanges[field][2]

\* _prepare_payload, one numeric field: None and '' become None, a value
\* that float() converts to a number in the range is kept as that number
\* (min_val <= value <= max_val is False for NaN), anything else is refused
FieldAccepted(field, raw_value) ==
    \/ raw_value \in {Absent, None, Str("")}
    \/ /\ IsNum(FloatOf(raw_value))
       /\ SaveRanges[field][1] <= FloatOf(raw_value).n
       /\ FloatOf(raw_value).n <= SaveRanges[field][2]

PreparedField(raw_value) ==
    IF raw_value \in {Absent, None, Str("")} THEN None ELSE FloatOf(raw_value)

\* _prepare_payload: the row to insert, without its id
PreparePayload(data, tank_id) ==
    [f \in DOMAIN data \cup {"tank_id"} |->
        IF f = "tank_id" THEN tank_id
        ELSE IF f \in NumericFields THEN PreparedField(data[f])
        ELSE IF data[f] = Absent THEN None
        ELSE data[f]]

\* the rowid given to a new row: one above the largest in the table
NextId(rows) ==
    IF rows = {} THEN 1
    ELSE 1 + (CHOOSE i \in {r.id : r \in rows} : \A r \in rows : r.id <= i)

\* save: the result and the table after it.  The INSERT runs on a connection
\* of get_connection, which does not switch foreign keys on: a row for a
\* tank that does not exist is inserted too.
Save(rows, data, tank_id) ==
    LET raised == ValidateInput(data, tank_id)
    IN  IF raised # "none"
        THEN [raised |-> raised, rows |-> rows, row |-> None]
        ELSE IF \E f \in NumericFields : ~FieldAccepted(f, data[f])
        THEN [raised |-> "ValueError", rows |-> rows, row |-> None]
        ELSE LET row == PreparePayload(data, tank_id) @@ [id |-> NextId(rows)]
             IN  [raised |-> "none", rows |-> rows \cup {row}, row |-> row]

InitSave ==
    /\ tanks = [i \in {1} |-> TankRow(None, None, None)]
    /\ nextTankId = 2
    /\ custom_ranges = {}
    /\ instances = 0
    /\ water_tests = {} /\ records = {} /\ session_state = NoSession
    /\ last = NoCall

\* the form's repo = WaterTestRepository(); repo.save(data, tank_id), for
\* a record out of data_args
SaveOf(data_args) ==
    /\ instances < MaxSaves
    /\ \E data \in data_args, tank_id \in 0..nextTankId :
         LET out == Save(water_tests, data, tank_id)
         IN  /\ water_tests' = out.rows
             /\ last' = [op |-> "save", data |-> data, tank_id |-> tank_id,
                         raised |-> out.raised, row |-> out.row]
    /\ instances' = instances + 1
    /\ UNCHANGED <<tanks, nextTankId, custom_ranges, records, session_state>>

SaveWaterTest == SaveOf(DataArgs)

NextSave == SaveWaterTest

SpecSave == InitSave /\ [][NextSave]_vars

\* the record is one the form can submit for an existing tank: every
\* numeric field a number in its range or not measured
Submittable ==
    /\ last.op = "save"
    /\ HasTank(last.tank_id)
    /\ \A f \in NumericFields : FieldAccepted(f, last.data[f])

\* C18: a water test whose co2_indicator was not measured (None, as the form
\* submits for a tank without CO2 equipment) is accepted by save and stored
\* with a null indicator, as a numeric field that was not measured is.
C18_UnmeasuredIndicatorSaved ==
    (Submittable /\ last.data.co2_indicator \in {None, Absent})
        => /\ last.raised = "none"
           /\ last.row \in water_tests
           /\ last.row.co2_indicator = None

\* a record of tank 1 with co2_indicator None and every numeric field
\* measured and in its range: refused, no row stored
C18_Witness ==
    /\ Submittable
    /\ last.tank_id = 1
    /\ last.data.co2_indicator = None
    /\ \A f \in NumericFields : IsNum(last.data[f])
    /\ last.raised = "ValueError"
    /\ water_tests = {} /\ records = {} /\ session_state = NoSession

\* a record with pH None and a colour is saved with a null pH
NullNumericSaved ==
    (Submittable /\ last.data.co2_indicator \in VALID_CO2_INDICATORS
       /\ last.data.ph = None)
        => (last.raised = "none" /\ last.row \in water_tests /\ last.row.ph = None)

(***************************************************************************)
(* utils/validation.py: is_too_low, is_too_high                            *)
(***************************************************************************)
\* dict.get(param)
Get(thresholds, param) ==
    IF param \in DOMAIN thresholds THEN Num(thresholds[param]) ELSE None

\* value < thresh and value > thresh on Python values: NaN compares False,
\* None and text against a float raise TypeError
is_too_low_Inclusive(param, value) ==
    LET thresh == Get(TOO_LOW_THRESHOLDS, param)
    IN  IF thresh = None THEN Ret(FALSE)
        ELSE IF value = NaN THEN Ret(FALSE)
        ELSE IF ~IsNum(value) THEN Raise("TypeError")
        ELSE Ret(value.n <= thresh.n)

is_too_low(param, value) ==
    LET thresh == Get(TOO_LOW_THRESHOLDS, param)
    IN  IF thresh = None THEN Ret(FALSE)
        ELSE IF value = NaN THEN Ret(FALSE)
        ELSE IF ~IsNum(value) THEN Raise("TypeError")
        ELSE Ret(value.n < thresh.n)

is_too_high(param, value) ==
    LET thresh == Get(TOO_HIGH_THRESHOLDS, param)
    IN  IF thresh = None THEN Ret(FALSE)
        ELSE IF value = NaN THEN Ret(FALSE)
        ELSE IF ~IsNum(value) THEN Raise("TypeError")
        ELSE Ret(value.n > thresh.n)

\* the values tried for a parameter: one step below, at and one step above
\* each threshold it has, and a value that is missing, NaN or text
ThresholdArgs(param) ==
    {None, NaN, Str("abc"), Num(ValueStep)}
      \cup UNION {{Num(t[param] - ValueStep), Num(t[param]), Num(t[param] + ValueStep)} :
                    t \in {th \in {TOO_LOW_THRESHOLDS, TOO_HIGH_THRESHOLDS} :
                             param \in DOMAIN th}}

InitThreshold ==
    /\ tanks = [i \in TankIds |-> TankRow(None, None, None)]
    /\ nextTankId = MaxTank + 1
    /\ custom_ranges = {}
    /\ instances = 0
    /\ water_tests = {} /\ records = {} /\ session_state = NoSession
    /\ \E param \in ParamArgs :
         \E value \in ThresholdArgs(param) :
           last = [op |-> "threshold_call", param |-> param, value |-> value]

IsTooLow ==
    /\ last.op = "threshold_call"
    /\ LET r == is_too_low(last.param, last.value)
       IN  last' = [last EXCEPT !.op = "is_too_low"]
                     @@ [raised |-> r.raised, result |-> r.value]
    /\ UNCHANGED <<tanks, nextTankId, custom_ranges, instances, water_tests, records, session_state>>

IsTooHigh ==
    /\ last.op = "threshold_call"
    /\ LET r == is_too_high(last.param, last.value)
       IN  last' = [last EXCEPT !.op = "is_too_high"]
                     @@ [raised |-> r.raised, result |-> r.value]
    /\ UNCHANGED <<tanks, nextTankId, custom_ranges, instances, water_tests, records, session_state>>

NextThreshold == IsTooLow \/ IsTooHigh

SpecThreshold == InitThreshold /\ [][NextThreshold]_vars

\* C19: for a numeric value is_too_low is true iff a too-low threshold is
\* configured for the parameter and the value is strictly below it, and
\* is_too_high is true iff a too-high threshold is configured and the value
\* is strictly above it; a value equal to the threshold is not flagged, and
\* a parameter without a threshold, an unknown name included, is never
\* flagged and never raises, whatever the value.
C19_StrictThresholds ==
    /\ (last.op = "is_too_low" /\ IsNum(last.value)) =>
          /\ last.raised = "none"
          /\ last.result <=> (/\ last.param \in {"nitrate", "kh", "ph", "co2_indicator"}
                              /\ last.value.n < TOO_LOW_THRESHOLDS[last.param])
    /\ (last.op = "is_too_high" /\ IsNum(last.value)) =>
          /\ last.raised = "none"
          /\ last.result <=> (/\ last.param \in AllParams
                              /\ last.value.n > TOO_HIGH_THRESHOLDS[last.param])
    /\ (last.op = "is_too_low"
          /\ last.param \notin {"nitrate", "kh", "ph", "co2_indicator"})
          => (last.raised = "none" /\ ~last.result)
    /\ (last.op = "is_too_high" /\ last.param \notin AllParams)
          => (last.raised = "none" /\ ~last.result)

\* nitrate of exactly 20 ppm is not too low
C19_Witness ==
    /\ last.op = "is_too_low"
    /\ last.param = "nitrate" /\ last.value = Num(2000)
    /\ last.raised = "none" /\ ~last.result

(***************************************************************************)
(* SpecRemediation: the warnings tab shown for one test of a tank whose    *)
(* volume is missing, zero or set.                                         *)
(***************************************************************************)
\* tank volumes in litres: not set, 0 and 100 L
TankVolumes == {None, Num(0), Num(100)}

RemediationRows ==
    {[p \in AllParams |->
        CASE p = "kh"      -> kh
          [] p = "gh"      -> gh
          [] p = "ammonia" -> amm
          [] OTHER         -> None] :
        kh \in {None, Num(SAFE_RANGES["kh"][1] - 4 * ValueStep),
                Num(SAFE_RANGES["kh"][1] + ValueStep),
                Num(SAFE_RANGES["kh"][2] + ValueStep)},
        gh \in {None, Num(SAFE_RANGES["gh"][1] - 2 * ValueStep),
                Num(SAFE_RANGES["gh"][1])},
        amm \in {None, Num(ValueStep)}}

\* no custom range, or one for KH that starts above or below the default
RemediationRanges ==
    {{}} \cup {{CustomRangeRow(t, "kh", low, Num(SAFE_RANGES["kh"][2]))} :
                  t \in TankIds,
                  low \in {Num(SAFE_RANGES["kh"][1] - 2 * ValueStep),
                           Num(SAFE_RANGES["kh"][1] + 2 * ValueStep)}}

InitRemediation ==
    /\ \E volume_l \in TankVolumes :
         tanks = [i \in TankIds |-> TankRow(None, None, volume_l)]
    /\ nextTankId = MaxTank + 1
    /\ custom_ranges \in RemediationRanges
    /\ instances = 0
    /\ water_tests = {} /\ records = {} /\ session_state = NoSession
    /\ \E row \in RemediationRows, tank_id \in TankIds, float_columns \in BOOLEAN :
         last = [op |-> "latest_test", row |-> row, tank_id |-> tank_id,
                 hour |-> 11, float_columns |-> float_columns]

NextRemediation == WarningsTab

SpecRemediation == InitRemediation /\ [][NextRemediation]_vars

\* C20: in the recommended actions of the warnings tab a tank volume that is
\* missing or not positive is no error: nothing raises and no dose is
\* computed; with a volume, the dose shown for a low KH or GH is the one for
\* the deficit max(0, safe_low - value), and is never negative.
C20_VolumeOptional ==
    (last.op = "warnings_tab") =>
        /\ last.raised = "none"
        /\ (last.volume_l = None \/ last.volume_l.n <= 0)
              => (last.low_doses = <<>> /\ last.high_doses = <<>>)
        /\ \A p \in DOMAIN last.low_doses :
              /\ last.low_doses[p] >= 0
              /\ last.volume_l.n > 0
              /\ LET deficit == SAFE_RANGES[p][1] - last.row[p].n
                 IN  IF p = "kh"
                     THEN IsQuotient(last.low_doses[p],
                                     last.volume_l.n * Max0(deficit) * 60, 224)
                     ELSE IsQuotient(last.low_doses[p],
                                     last.volume_l.n * Max0(deficit) * 160, 240)
        /\ (last.volume_l # None /\ last.volume_l.n > 0)
              => \A p \in last.low_warnings \cap {"kh", "gh"} :
                    p \in DOMAIN last.low_doses

\* a low KH of a tank without a volume: the hint is shown, no dose
C20_Witness ==
    /\ last.op = "warnings_tab"
    /\ last.volume_l = None
    /\ "kh" \in last.low_warnings
    /\ last.raised = "none" /\ last.volume_hint
    /\ last.low_doses = <<>>

\* a low KH of a tank of 100 L: a positive dose
C20_DoseShown ==
    /\ last.op = "warnings_tab"
    /\ last.volume_l = Num(100)
    /\ "kh" \in DOMAIN last.low_doses
    /\ last.low_doses["kh"] > 0

(***************************************************************************)
(* Python floats: IEEE 754 doubles, for values that are not negative.  A   *)
(* double is m * 2^e with 2^52 <= m < 2^53, or zero; m is written in       *)
(* digits of 13 bits, most significant first.  Every operation computes    *)
(* the exact result and rounds it to nearest, ties to even.                *)
(***************************************************************************)
Base == 2 ^ 13

DoubleZero == [m |-> <<>>, e |-> 0]

\* the digits of a small integer, and back
RECURSIVE NatOf(_)
NatOf(n) == IF n = 0 THEN <<>> ELSE NatOf(n \div Base) \o <<n % Base>>

RECURSIVE NatToInt(_)
NatToInt(ds) ==
    IF ds = <<>> THEN 0
    ELSE Base * NatToInt(SubSeq(ds, 1, Len(ds) - 1)) + ds[Len(ds)]

RECURSIVE Strip(_)
Strip(ds) == IF ds = <<>> \/ ds[1] # 0 THEN ds ELSE Strip(Tail(ds))

\* ds * n, n below Base
RECURSIVE MulCarry(_, _, _, _)
MulCarry(ds, n, i, carry) ==
    IF i = 0 THEN NatOf(carry)
    ELSE LET t == ds[i] * n + carry
         IN  MulCarry(ds, n, i - 1, t \div Base) \o <<t % Base>>

NatMul(ds, n) == Strip(MulCarry(ds, n, Len(ds), 0))

\* the digits of ds / n, followed by the remainder
RECURSIVE DivRem(_, _, _, _)
DivRem(ds, n, i, r) ==
    IF i > Len(ds) THEN <<r>>
    ELSE LET t == Base * r + ds[i]
         IN  <<t \div n>> \o DivRem(ds, n, i + 1, t % n)

NatDiv(ds, n) ==
    LET qr == DivRem(ds, n, 1, 0)
    IN  [q |-> Strip(SubSeq(qr, 1, Len(qr) - 1)), inexact |-> qr[Len(qr)] # 0]

Padded(ds, n) == [i \in 1..(n - Len(ds)) |-> 0] \o ds

RECURSIVE AddCarry(_, _, _, _)
AddCarry(a, b, i, carry) ==
    IF i = 0 THEN NatOf(carry)
    ELSE LET t == a[i] + b[i] + carry
         IN  AddCarry(a, b, i - 1, t \div Base) \o <<t % Base>>

RECURSIVE SubBorrow(_, _, _, _)
SubBorrow(a, b, i, borrow) ==
    IF i = 0 THEN <<>>
    ELSE LET t == a[i] - b[i] - borrow
         IN  SubBorrow(a, b, i - 1, IF t < 0 THEN 1 ELSE 0) \o <<t % Base>>

NatAdd(a, b) ==
    LET n == IF Len(a) > Len(b) THEN Len(a) ELSE Len(b)
    IN  Strip(AddCarry(Padded(a, n), Padded(b, n), n, 0))

\* a - b, for a >= b
NatSub(a, b) ==
    LET n == IF Len(a) > Len(b) THEN Len(a) ELSE Len(b)
    IN  Strip(SubBorrow(Padded(a, n), Padded(b, n), n, 0))

\* the number of bits of ds
BitLen(ds) ==
    IF ds = <<>> THEN 0
    ELSE 13 * (Len(ds) - 1) + (CHOOSE k \in 1..13 : 2 ^ (k - 1) <= ds[1] /\ ds[1] < 2 ^ k)

RECURSIVE ShiftLeft(_, _)
ShiftLeft(ds, k) ==
    IF k >= 13 THEN ShiftLeft(ds \o <<0>>, k - 13) ELSE NatMul(ds, 2 ^ k)

\* ds / 2^k, and whether a bit that is 1 was shifted out
RECURSIVE ShiftRight(_, _)
ShiftRight(ds, k) ==
    IF ds = <<>> THEN [q |-> <<>>, inexact |-> FALSE]
    ELSE IF k >= 13
    THEN LET r == ShiftRight(SubSeq(ds, 1, Len(ds) - 1), k - 13)
         IN  [q |-> r.q, inexact |-> r.inexact \/ ds[Len(ds)] # 0]
    ELSE NatDiv(ds, 2 ^ k)

Odd(ds) == ds # <<>> /\ ds[Len(ds)] % 2 = 1

\* the integer nearest to ds / 2^k (plus a little, when sticky), ties to even
RoundShift(ds, k, sticky) ==
    LET r == ShiftRight(ds, k - 1)
        q == ShiftRight(r.q, 1).q
        up == Odd(r.q) /\ (r.inexact \/ sticky \/ Odd(q))
    IN  IF up THEN NatAdd(q, <<1>>) ELSE q

\* the double nearest to ds * 2^e (plus a little, when sticky)
RoundToDouble(ds, e, sticky) ==
    LET n == BitLen(Strip(ds))
    IN  IF n = 0 THEN DoubleZero
        ELSE IF n <= 53
        THEN [m |-> ShiftLeft(Strip(ds), 53 - n), e |-> e - (53 - n)]
        ELSE LET out == RoundShift(Strip(ds), n - 53, sticky)
             IN  IF BitLen(out) = 54
                 THEN [m |-> ShiftRight(out, 1).q, e |-> e + (n - 53) + 1]
                 ELSE [m |-> out, e |-> e + (n - 53)]

FromInt(n) == RoundToDouble(NatOf(n), 0, FALSE)

\* n / 2, exactly
Halves(n) == RoundToDouble(NatOf(n), 0 - 1, FALSE)

\* x * n and x / n, n a small integer
Mul(x, n) == RoundToDouble(NatMul(x.m, n), x.e, FALSE)

Div(x, n) ==
    LET r == NatDiv(x.m \o <<0>>, n)
    IN  RoundToDouble(r.q, x.e - 13, r.inexact)

\* x + y, and x - y for x >= y
Add(x, y) ==
    IF x = DoubleZero THEN y
    ELSE IF y = DoubleZero THEN x
    ELSE LET e == IF x.e < y.e THEN x.e ELSE y.e
         IN  RoundToDouble(NatAdd(ShiftLeft(x.m, x.e - e), ShiftLeft(y.m, y.e - e)),
                           e, FALSE)

Sub(x, y) ==
    IF y = DoubleZero THEN x
    ELSE LET e == IF x.e < y.e THEN x.e ELSE y.e
         IN  RoundToDouble(NatSub(ShiftLeft(x.m, x.e - e), ShiftLeft(y.m, y.e - e)),
                           e, FALSE)

\* f"{v:.1f}": the tenths of the decimal nearest to v, ties to even
Tenths(v) ==
    IF v = DoubleZero THEN 0
    ELSE IF v.e >= 0 THEN NatToInt(ShiftLeft(NatMul(v.m, 10), v.e))
    ELSE NatToInt(RoundShift(NatMul(v.m, 10), 0 - v.e, FALSE))

(***************************************************************************)
(* config.py CONVERSIONS, UNIT_SYSTEMS; utils/localization.py              *)
(***************************************************************************)
\* lambda c: c * 9 / 5 + 32
CelsiusToFahrenheit_Offset(c) == Add(Div(Mul(c, 9), 5), FromInt(23))

CelsiusToFahrenheit(c) == Add(Div(Mul(c, 9), 5), FromInt(32))

\* lambda f: (f - 32) * 5 / 9
FahrenheitToCelsius(f) == Div(Mul(Sub(f, FromInt(32)), 5), 9)

\* the unit symbols, written without the degree sign
UNIT_SYSTEMS ==
    [Metric |-> [temperature |-> "C", ammonia |-> "ppm", nitrite |-> "ppm",
                 nitrate |-> "ppm", ph |-> "", kh |-> "dKH", gh |-> "dGH",
                 co2_indicator |-> ""],
     Imperial |-> [temperature |-> "F", ammonia |-> "ppm", nitrite |-> "ppm",
                   nitrate |-> "ppm", ph |-> "", kh |-> "dKH", gh |-> "GH",
                   co2_indicator |-> ""]]

\* the pairs of units CONVERSIONS has a function for
ConversionKeys == {<<"C", "F">>, <<"F", "C">>}

Conversion(from_u, to_u, value) ==
    IF <<from_u, to_u>> = <<"C", "F">> THEN CelsiusToFahrenheit(value)
    ELSE FahrenheitToCelsius(value)

\* convert_value, for the unit system of the session
convert_value(units, value, param) ==
    LET from_u == UNIT_SYSTEMS["Metric"][param]
        to_u == UNIT_SYSTEMS[units][param]
    IN  IF from_u # "" /\ to_u # "" /\ <<from_u, to_u>> \in ConversionKeys
        THEN Conversion(from_u, to_u, value)
        ELSE value

\* format_with_units: the tenths printed and the unit after them
format_with_units(units, value, param) ==
    [tenths |-> Tenths(convert_value(units, value, param)),
     unit |-> UNIT_SYSTEMS[units][param]]

(***************************************************************************)
(* SpecUnits: one value shown under one unit system.                       *)
(***************************************************************************)
MaxHalfDegrees == 80

\* |x - y| <= 2^-46
RECURSIVE NatLess(_, _)
NatLess(a, b) ==
    IF Len(a) # Len(b) THEN Len(a) < Len(b)
    ELSE IF a = <<>> THEN FALSE
    ELSE IF a[1] # b[1] THEN a[1] < b[1]
    ELSE NatLess(Tail(a), Tail(b))

Close(x, y) ==
    LET e == IF x.e < y.e THEN x.e ELSE y.e
        a == ShiftLeft(x.m, x.e - e)
        b == ShiftLeft(y.m, y.e - e)
        d == IF NatLess(a, b) THEN NatSub(b, a) ELSE NatSub(a, b)
    IN  d = <<>> \/ BitLen(d) + e <= 0 - 46

InitUnits ==
    /\ tanks = [i \in TankIds |-> TankRow(None, None, None)]
    /\ nextTankId = MaxTank + 1
    /\ custom_ranges = {}
    /\ instances = 0
    /\ water_tests = {} /\ records = {} /\ session_state = NoSession
    /\ \E units \in DOMAIN UNIT_SYSTEMS, param \in AllParams, k \in 0..MaxHalfDegrees :
         last = [op |-> "units_call", units |-> units, param |-> param,
                 halves |-> k, value |-> Halves(k)]

ConvertValue ==
    /\ last.op = "units_call"
    /\ last' = [last EXCEPT !.op = "convert_value"]
                 @@ [result |-> convert_value(last.units, last.value, last.param)]
    /\ UNCHANGED <<tanks, nextTankId, custom_ranges, instances, water_tests, records, session_state>>

FormatWithUnits ==
    /\ last.op = "units_call"
    /\ last' = [last EXCEPT !.op = "format_with_units"]
                 @@ [result |-> format_with_units(last.units, last.value, last.param)]
    /\ UNCHANGED <<tanks, nextTankId, custom_ranges, instances, water_tests, records, session_state>>

\* CONVERSIONS[("C", "F")] and then CONVERSIONS[("F", "C")]
RoundTrip ==
    /\ last.op = "units_call"
    /\ last.param = "temperature"
    /\ last' = [last EXCEPT !.op = "round_trip"]
                 @@ [result |-> Conversion("F", "C", Conversion("C", "F", last.value))]
    /\ UNCHANGED <<tanks, nextTankId, custom_ranges, instances, water_tests, records, session_state>>

NextUnits == ConvertValue \/ FormatWithUnits \/ RoundTrip

SpecUnits == InitUnits /\ [][NextUnits]_vars

\* convert_value and format_with_units as C21 states them: Metric changes
\* nothing, Imperial changes the temperature alone, to c * 9 / 5 + 32 (in
\* tenths 9 * halves + 320), and the text shows one decimal of the
\* converted value and the unit of the system
ConvertsAndFormats ==
    /\ (last.op = "convert_value") =>
          IF last.units = "Imperial" /\ last.param = "temperature"
          THEN Tenths(last.result) = 9 * last.halves + 320
          ELSE last.result = last.value
    /\ (last.op = "format_with_units") =>
          /\ last.result.tenths =
                IF last.units = "Imperial" /\ last.param = "temperature"
                THEN 9 * last.halves + 320 ELSE 5 * last.halves
          /\ last.result.unit =
                IF last.param = "temperature"
                THEN (IF last.units = "Imperial" THEN "F" ELSE "C")
                ELSE UNIT_SYSTEMS[last.units][last.param]

C21_Shown ==
    /\ last.op = "format_with_units"
    /\ last.units = "Imperial" /\ last.param = "temperature" /\ last.halves = 50
    /\ last.result = [tenths |-> 770, unit |-> "F"]

(***************************************************************************)
(* utils/chemistry.py: calculate_water_change_percentage, values in        *)
(* hundredths, the percentage in hundredths of a percent                   *)
(***************************************************************************)
ChangeArgs ==
    {ValueStep * k : k \in (0 - MaxDoseStep)..(2 * MaxDoseStep)} \cup {5000, 6000, 10000}

calculate_water_change_percentage_Unguarded(current_value, target_value) ==
    IF current_value <= 0 THEN 0
    ELSE ((current_value - target_value) * 10000) \div current_value

calculate_water_change_percentage(current_value, target_value) ==
    IF current_value <= 0 THEN 0
    ELSE IF target_value >= current_value THEN 0
    ELSE ((current_value - target_value) * 10000) \div current_value

InitWaterChange ==
    /\ tanks = [i \in TankIds |-> TankRow(None, None, None)]
    /\ nextTankId = MaxTank + 1
    /\ custom_ranges = {}
    /\ instances = 0
    /\ water_tests = {} /\ records = {} /\ session_state = NoSession
    /\ \E current_value \in ChangeArgs, target_value \in ChangeArgs :
         last = [op |-> "change_call", current_value |-> current_value,
                 target_value |-> target_value]

WaterChangePercentage ==
    /\ last.op = "change_call"
    /\ last' = [last EXCEPT !.op = "calculate_water_change_percentage"]
                 @@ [result |-> calculate_water_change_percentage(
                                    last.current_value, last.target_value)]
    /\ UNCHANGED <<tanks, nextTankId, custom_ranges, instances, water_tests, records, session_state>>

NextWaterChange == WaterChangePercentage

SpecWaterChange == InitWaterChange /\ [][NextWaterChange]_vars

\* C22: calculate_water_change_percentage is 0 when the current value is
\* not positive or the target is not below it, else (current - target) /
\* current * 100; for a target that is not negative it lies in [0, 100].
C22_WaterChange ==
    (last.op = "calculate_water_change_percentage") =>
        /\ (last.current_value <= 0 \/ last.target_value >= last.current_value)
              => last.result = 0
        /\ (last.current_value > 0 /\ last.target_value < last.current_value)
              => IsQuotient(last.result,
                            (last.current_value - last.target_value) * 10000,
                            last.current_value)
        /\ last.target_value >= 0 => (0 <= last.result /\ last.result <= 10000)

\* from 100 down to 50: half of the water
C22_Witness ==
    /\ last.op = "calculate_water_change_percentage"
    /\ last.current_value = 10000 /\ last.target_value = 5000
    /\ last.result = 5000

(***************************************************************************)
(* SpecIntegrity: tanks are added and removed and water tests saved, in    *)
(* any order.                                                              *)
(***************************************************************************)
\* a test saved as the form is first shown
SaveFormDefaults == SaveOf({FormDefaults})

NextIntegrity == AddTank \/ RemoveTank \/ SaveFormDefaults

SpecIntegrity == InitDb /\ [][NextIntegrity]_vars

\* C23: save for a tank id that has no tank is refused with an error and
\* inserts nothing, so every stored water test refers to a tank that exists.
C23_ReferentialIntegrity ==
    /\ \A t \in water_tests : HasTank(t.tank_id)
    /\ (last.op = "save" /\ ~HasTank(last.tank_id)) => last.raised = "ValueError"

\* a test saved for tank 2 while tank 1 is the only tank: accepted, and the
\* row is in the table
C23_Witness ==
    /\ last.op = "save"
    /\ last.tank_id = 2 /\ DOMAIN tanks = {1}
    /\ last.raised = "none"
    /\ \E t \in water_tests : t.tank_id = 2

(***************************************************************************)
(* SpecCascade: tanks are added and removed while water tests, custom      *)
(* ranges, owned plants and fish, equipment and maintenance records are    *)
(* stored for them.                                                        *)
(***************************************************************************)
MaxRecords == 2

\* the species of the catalogues that are added to a tank
SpeciesArgs == {1}

\* the id of the next row of a table with an integer primary key: one more
\* than the largest id in the table (AUTOINCREMENT would also skip the ids
\* of rows deleted since; the id only tells the rows of a tank apart)
NextRowId(table) ==
    LET ids == {r.item : r \in {x \in records : x.table = table}}
    IN  IF ids = {} THEN 1 ELSE (CHOOSE m \in ids : \A i \in ids : i <= m) + 1

\* an INSERT into a child table on a connection of get_connection, which
\* does not enforce the foreign key: the row is stored for any tank_id
InsertRecord(table, tank_id, item) ==
    /\ Cardinality(records) < MaxRecords
    /\ records' = records \cup {[table |-> table, tank_id |-> tank_id, item |-> item]}
    /\ last' = [op |-> "insert", table |-> table, tank_id |-> tank_id,
                raised |-> "none"]
    /\ UNCHANGED <<tanks, nextTankId, custom_ranges, instances, water_tests, session_state>>

\* EquipmentRepository.add_equipment
AddEquipment ==
    \E tank_id \in 1..nextTankId :
        InsertRecord("equipment", tank_id, NextRowId("equipment"))

\* MaintenanceRepository.save_maintenance
SaveMaintenance ==
    \E tank_id \in 1..nextTankId :
        InsertRecord("maintenance_log", tank_id, NextRowId("maintenance_log"))

\* OwnedFishRepository.add_to_tank: ON CONFLICT(fish_id, tank_id) DO NOTHING
AddOwnedFish ==
    \E tank_id \in 1..nextTankId, fish_id \in SpeciesArgs :
        InsertRecord("owned_fish", tank_id, fish_id)

\* OwnedPlantRepository.add_to_tank: ON CONFLICT(plant_id, tank_id) DO NOTHING
AddOwnedPlant ==
    \E tank_id \in 1..nextTankId, plant_id \in SpeciesArgs :
        InsertRecord("owned_plants", tank_id, plant_id)

\* a custom pH range of 6.5 to 7.5 is set for a tank
SetPhRange ==
    \E tank_id \in 1..MaxTank :
        LET out == CustomRangeSet(tank_id, "ph", Num(650), Num(750))
        IN  /\ custom_ranges' = out.rows
            /\ last' = [op |-> "set", tank_id |-> tank_id, parameter |-> "ph",
                        low |-> Num(650), high |-> Num(750),
                        raised |-> out.raised,
                        changed |-> out.rows # custom_ranges]
            /\ UNCHANGED <<tanks, nextTankId, instances, water_tests, records, session_state>>

NextCascade ==
    \/ AddTank
    \/ RemoveTank
    \/ SaveFormDefaults
    \/ SetPhRange
    \/ AddEquipment
    \/ SaveMaintenance
    \/ AddOwnedFish
    \/ AddOwnedPlant

SpecCascade == InitDb /\ [][NextCascade]_vars

\* the rows of a table that do not refer to tank_id
OfOtherTanks(rows, tank_id) == {r \in rows : r.tank_id # tank_id}

\* C24: remove(tank_id) of a tank deletes the tank and every row of
\* water_tests, custom_ranges, owned_plants, owned_fish, equipment and
\* maintenance_log that refers to it, and leaves the other tanks and the
\* rows of every other tank id as they were.
C24_RemoveCascades ==
    [][LET tank_id == last'.tank_id
       IN  (last'.op = "remove" /\ last'.raised = "none" /\ HasTank(tank_id))
           => /\ tank_id \notin DOMAIN tanks'
              /\ \A i \in DOMAIN tanks \ {tank_id} :
                     i \in DOMAIN tanks' /\ tanks'[i] = tanks[i]
              /\ water_tests' = OfOtherTanks(water_tests, tank_id)
              /\ custom_ranges' = OfOtherTanks(custom_ranges, tank_id)
              /\ records' = OfOtherTanks(records, tank_id)]_vars

\* tank 1 was removed and three of its rows went with it, while tank 2 and
\* rows of water_tests and of the other tables that are not of tank 1 stay
C24_Witness ==
    /\ last.op = "remove" /\ last.tank_id = 1 /\ last.raised = "none"
    /\ last.cascaded >= 3
    /\ DOMAIN tanks = {2}
    /\ water_tests # {} /\ records # {}

\* remove of an id that no tank has deletes nothing: a water test stored
\* for that id stays
OrphanOutlivesRemove ==
    /\ last.op = "remove" /\ last.raised = "none" /\ ~last.changed
    /\ \E t \in water_tests : t.tank_id = last.tank_id

\* C25: every numeric parameter of a test that is_out_of_range reports out
\* of range is in the low or the high warnings of the warnings tab, and is
\* labelled "Too Low" or "Too High" by the overview tab.
C25_NoFlaggedReadingLost ==
    /\ last.op = "warnings_tab"
         => \A p \in last.flagged \cap NumericParams :
                p \in last.low_warnings \cup last.high_warnings
    /\ last.op = "overview_tab"
         => \A p \in last.flagged \cap NumericParams :
                last.labels[p] \in {"Too Low", "Too High"}

\* the warnings tab evaluated a pH of 8.0 for a tank whose custom range ends
\* below it: the pH is flagged and is in neither list of warnings
C25_Witness ==
    /\ last.op = "warnings_tab"
    /\ last.row["ph"] = Num(800)
    /\ HasCustomRange(last.tank_id, "ph")
    /\ CustomRangeGet(last.tank_id, "ph")[2] < 800
    /\ "ph" \in last.flagged
    /\ "ph" \notin last.low_warnings \cup last.high_warnings

\* the overview tab shows the same pH as out of range and "Within Range"
C25_OverviewWithinRange ==
    /\ last.op = "overview_tab"
    /\ last.row["ph"] = Num(800)
    /\ "ph" \in last.flagged
    /\ last.labels["ph"] = "Within Range"

\* C26: the banner shows its warning exactly when the overview tab finds a
\* parameter of the same latest test out of range.
C26_BannerMatchesOverview ==
    last.op = "show_out_of_range_banner"
        => ((last.flagged # {})
              <=> (OverviewFlagged(last.row, last.tank_id, last.hour) # {}))

\* a test of 03:00 with a Blue indicator and nothing else out of range: the
\* banner is shown, and the overview tab finds no parameter out of range
C26_Witness ==
    /\ last.op = "show_out_of_range_banner"
    /\ last.hour = 3
    /\ last.row["co2_indicator"] = Str("Blue")
    /\ last.flagged = {"co2_indicator"}
    /\ OverviewFlagged(last.row, last.tank_id, last.hour) = {}

\* for every test whose indicator is not Blue the two agree
BannerMatchesOverviewUnlessBlue ==
    (last.op = "show_out_of_range_banner" /\ last.row["co2_indicator"] # Str("Blue"))
        => ((last.flagged # {})
              <=> (OverviewFlagged(last.row, last.tank_id, last.hour) # {}))

\* C27: a 'Blue' reading with a test time is judged by the tank's own
\* schedule only when both of its hours are stored; when the tank has no
\* row, or either hour is unset, it is judged by (9, 17) for both hours.
C27_EffectiveSchedule ==
    (IsCo2Call /\ last.value = Str("Blue") /\ last.test_time # None)
    => /\ last.raised = "none"
       /\ (StoredOn # None /\ StoredOff # None)
            => (last.result
                  <=> IsOnPeriod(StoredOn.n, StoredOff.n, last.test_time.n))
       /\ (StoredOn = None \/ StoredOff = None)
            => (last.result
                  <=> (9 <= last.test_time.n /\ last.test_time.n < 17))

\* the tank stores the on-hour 12 and no off-hour; a 'Blue' reading of
\* 10:00, which is inside (9, 17) and outside (12, 17), is reported
C27_Witness ==
    /\ IsCo2Call /\ last.value = Str("Blue") /\ last.test_time = Num(10)
    /\ StoredOn = Num(12) /\ StoredOff = None
    /\ last.result

\* set_co2_schedule stored one hour of a tank and left the other unset
OneHourStored ==
    \E t \in DOMAIN tanks :
        (tanks[t].co2_on_hour = None) # (tanks[t].co2_off_hour = None)

\* the histories of at least three readings that end with the same three
\* readings as the history of the last call
SameLastThree ==
    {df \in Histories :
        /\ Len(df) >= 3
        /\ \A k \in 0..2 : df[Len(df) - k] = last.df[Len(last.df) - k]}

\* ammonia or nitrite is NULL in one of the last three readings, or nitrate
\* is NULL in the most recent one
MissingInLastThree ==
    \/ \E k \in 1..3 : FromEnd(k).ammonia = None \/ FromEnd(k).nitrite = None
    \/ FromEnd(1).nitrate = None

\* C28: for a history of at least three readings the outcome of
\* _is_tank_cycled is that of every history with the same last three
\* readings, and with a value missing among those it compares the function
\* returns false and raises nothing.
C28_LastThreeOnly ==
    (last.op = "_is_tank_cycled" /\ Len(last.df) >= 3)
        => /\ \A df \in SameLastThree :
                LET r == is_tank_cycled(df)
                IN  r.raised = last.raised /\ r.value = last.result
           /\ MissingInLastThree => (last.raised = "none" /\ ~last.result)

\* three readings with ammonia and nitrite at 0 and no nitrate measured in
\* any of them: the call raises
C28_Witness ==
    /\ last.op = "_is_tank_cycled"
    /\ Len(last.df) = 3
    /\ \A i \in 1..3 :
         /\ last.df[i].ammonia = Num(0) /\ last.df[i].nitrite = Num(0)
         /\ last.df[i].nitrate = None
    /\ last.raised = "TypeError"

\* an older reading decides between false and the error: with a nitrate
\* value in the oldest of four readings the same last three give false
OlderReadingDecides ==
    /\ last.op = "_is_tank_cycled"
    /\ Len(last.df) = 4
    /\ last.df[1].nitrate # None
    /\ \A i \in 2..4 : last.df[i].nitrate = None
    /\ last.raised = "none" /\ ~last.result
    /\ \E df \in SameLastThree : is_tank_cycled(df).raised = "TypeError"

\* whether the function returns true depends on the last three readings
\* only, and it never returns true with a value missing among them
TrueByLastThreeOnly ==
    (last.op = "_is_tank_cycled" /\ Len(last.df) >= 3)
        => /\ \A df \in SameLastThree :
                LET r == is_tank_cycled(df)
                IN  (r.raised = "none" /\ r.value)
                      = (last.raised = "none" /\ last.result)
           /\ MissingInLastThree => ~(last.raised = "none" /\ last.result)

(***************************************************************************)
(* SpecConfirm: the settings panel's "Delete This Tank" and "Clear Current *)
(* Tank's Water Tests" sections.  Every action is one press or tick of the *)
(* user and the script runs that follow it, up to the page that is shown.  *)
(***************************************************************************)
\* the keys of st.session_state of the two sections, for the tank tid
DeleteFlag(tid) == <<"delete_tank_flag", tid>>
DeleteCheckbox(tid) == <<"delete_tank_confirm_checkbox", tid>>
ClearFlag(tid) == <<"clear_flag", tid>>
ClearCheckbox(tid) == <<"clear_confirm_checkbox", tid>>

\* "confirm and st.button(...)" with the mutation that shows the button
\* whether or not the checkbox is ticked
YesShown_Always(confirm) == TRUE

\* "confirm and st.button(...)": the Yes button is on the page only when
\* the checkbox is ticked
YesShown(confirm) == confirm

\* render_tank_selector: the tank selected once the page is shown, 0 when
\* there is no tank and the first tank when the selected one is gone
SelectedTank(tank_id, tank_map) ==
    IF tank_map = {} THEN 0
    ELSE IF tank_id \in tank_map THEN tank_id
    ELSE CHOOSE t \in tank_map : \A u \in tank_map : t <= u

\* the session state once the page is shown: the state of a checkbox is
\* kept only while the checkbox is on the page, which is when the selected
\* tank is its tank and the flag of its section is set
Rerun(truthy, tank_id, tank_map) ==
    LET tid == SelectedTank(tank_id, tank_map)
    IN  [tank_id |-> tid,
         truthy |-> {k \in truthy :
                       /\ k[1] = "delete_tank_confirm_checkbox"
                            => (k[2] = tid /\ DeleteFlag(tid) \in truthy)
                       /\ k[1] = "clear_confirm_checkbox"
                            => (k[2] = tid /\ ClearFlag(tid) \in truthy)}]

\* the first page of a session: tank 1 is selected
InitConfirm ==
    /\ tanks = [i \in {1} |-> TankRow(None, None, None)]
    /\ nextTankId = 2
    /\ custom_ranges = {}
    /\ instances = 0
    /\ water_tests = {}
    /\ records = {}
    /\ session_state = Rerun({}, 0, {1})
    /\ last = NoCall

\* the tank selectbox
SelectTank ==
    \E t \in DOMAIN tanks :
        /\ session_state' = Rerun(session_state.truthy, t, DOMAIN tanks)
        /\ last' = [op |-> "select_tank", tank_id |-> t]
        /\ UNCHANGED <<tanks, nextTankId, custom_ranges, instances, water_tests, records>>

\* a section is rendered for the selected tank
SectionShown(tid) == tid # 0 /\ tid \in DOMAIN tanks

\* a press or tick that changes the session state only
SessionOnly(op, tid, truthy) ==
    /\ session_state' = Rerun(truthy, tid, DOMAIN tanks)
    /\ last' = [op |-> op, tank_id |-> tid]
    /\ UNCHANGED <<tanks, nextTankId, custom_ranges, instances, water_tests, records>>

\* render_delete_tank_confirmation_section, "Prepare to Delete Tank"
PrepareDeleteTank ==
    LET tid == session_state.tank_id
    IN  /\ SectionShown(tid)
        /\ DeleteFlag(tid) \notin session_state.truthy
        /\ SessionOnly("prepare_delete_tank", tid,
                       session_state.truthy \cup {DeleteFlag(tid)})

\* the checkbox of the section is ticked or unticked
TickDeleteCheckbox ==
    LET tid == session_state.tank_id
    IN  /\ SectionShown(tid)
        /\ DeleteFlag(tid) \in session_state.truthy
        /\ SessionOnly("tick_delete_tank", tid,
                       IF DeleteCheckbox(tid) \in session_state.truthy
                       THEN session_state.truthy \ {DeleteCheckbox(tid)}
                       ELSE session_state.truthy \cup {DeleteCheckbox(tid)})

\* "Yes, Delete Tank": tank_repo.remove(tid), which may fail; the flag is
\* popped in the finally clause
ConfirmDeleteTank ==
    LET tid == session_state.tank_id
    IN  /\ SectionShown(tid)
        /\ DeleteFlag(tid) \in session_state.truthy
        /\ YesShown(DeleteCheckbox(tid) \in session_state.truthy)
        /\ \E db_error \in BOOLEAN :
             /\ tanks' = IF db_error THEN tanks
                         ELSE [i \in DOMAIN tanks \ {tid} |-> tanks[i]]
             /\ custom_ranges' = IF db_error THEN custom_ranges
                                 ELSE Cascade(custom_ranges, tid)
             /\ water_tests' = IF db_error THEN water_tests
                               ELSE Cascade(water_tests, tid)
             /\ records' = IF db_error THEN records ELSE Cascade(records, tid)
             /\ session_state' =
                  Rerun((session_state.truthy \ {DeleteFlag(tid)})
                           \cup (IF db_error THEN {} ELSE {<<"_delete_tank_flag", 0>>}),
                        tid, DOMAIN tanks')
             /\ last' = [op |-> "confirm_delete_tank", tank_id |-> tid,
                         raised |-> IF db_error THEN "RuntimeError" ELSE "none"]
        /\ UNCHANGED <<nextTankId, instances>>

\* "Cancel" of the section
CancelDeleteTank ==
    LET tid == session_state.tank_id
    IN  /\ SectionShown(tid)
        /\ DeleteFlag(tid) \in session_state.truthy
        /\ SessionOnly("cancel_delete_tank", tid,
                       session_state.truthy \ {DeleteFlag(tid)})

\* render_clear_tests_section, "Prepare to clear tests"
PrepareClearTests ==
    LET tid == session_state.tank_id
    IN  /\ SectionShown(tid)
        /\ ClearFlag(tid) \notin session_state.truthy
        /\ SessionOnly("prepare_clear_tests", tid,
                       session_state.truthy \cup {ClearFlag(tid)})

TickClearCheckbox ==
    LET tid == session_state.tank_id
    IN  /\ SectionShown(tid)
        /\ ClearFlag(tid) \in session_state.truthy
        /\ SessionOnly("tick_clear_tests", tid,
                       IF ClearCheckbox(tid) \in session_state.truthy
                       THEN session_state.truthy \ {ClearCheckbox(tid)}
                       ELSE session_state.truthy \cup {ClearCheckbox(tid)})

\* "Yes, delete all": DELETE FROM water_tests WHERE tank_id = tid, rolled
\* back when it fails; the flag is popped either way
ConfirmClearTests ==
    LET tid == session_state.tank_id
    IN  /\ SectionShown(tid)
        /\ ClearFlag(tid) \in session_state.truthy
        /\ YesShown(ClearCheckbox(tid) \in session_state.truthy)
        /\ \E db_error \in BOOLEAN :
             /\ water_tests' = IF db_error THEN water_tests
                               ELSE {t \in water_tests : t.tank_id # tid}
             /\ last' = [op |-> "confirm_clear_tests", tank_id |-> tid,
                         raised |-> IF db_error THEN "sqlite3.Error" ELSE "none"]
        /\ session_state' = Rerun(session_state.truthy \ {ClearFlag(tid)},
                                  tid, DOMAIN tanks)
        /\ UNCHANGED <<tanks, nextTankId, custom_ranges, instances, records>>

\* "Cancel" of the section
CancelClearTests ==
    LET tid == session_state.tank_id
    IN  /\ SectionShown(tid)
        /\ ClearFlag(tid) \in session_state.truthy
        /\ SessionOnly("cancel_clear_tests", tid,
                       session_state.truthy \ {ClearFlag(tid)})

\* the log form saves a test for the selected tank
SaveSelected ==
    /\ instances < MaxSaves
    /\ session_state.tank_id # 0
    /\ LET out == Save(water_tests, FormDefaults, session_state.tank_id)
       IN  /\ water_tests' = out.rows
           /\ last' = [op |-> "save", data |-> FormDefaults,
                       tank_id |-> session_state.tank_id,
                       raised |-> out.raised, row |-> out.row]
    /\ instances' = instances + 1
    /\ UNCHANGED <<tanks, nextTankId, custom_ranges, records, session_state>>

NextConfirm ==
    \/ AddTank
    \/ SaveSelected
    \/ SelectTank
    \/ PrepareDeleteTank
    \/ TickDeleteCheckbox
    \/ ConfirmDeleteTank
    \/ CancelDeleteTank
    \/ PrepareClearTests
    \/ TickClearCheckbox
    \/ ConfirmClearTests
    \/ CancelClearTests

SpecConfirm == InitConfirm /\ [][NextConfirm]_vars

\* a tank's row, or a water test, that the step deletes
TankDeleted(tid) == tid \in DOMAIN tanks /\ tid \notin DOMAIN tanks'
TestsDeleted(tid) == \E t \in water_tests \ water_tests' : t.tank_id = tid

\* C29: a tank is deleted only by the Yes button of a page on which the
\* tank's delete flag, set by an earlier press, is set and the checkbox is
\* ticked; the tests of a tank that stays are deleted only by the Yes button
\* with the tank's clear flag set and its checkbox ticked; Cancel deletes
\* nothing; and after Yes or Cancel the flag of the section is not set.
C29_TwoStepConfirmation ==
    [][/\ \A tid \in DOMAIN tanks :
            /\ TankDeleted(tid)
                 => /\ last'.op = "confirm_delete_tank" /\ last'.tank_id = tid
                    /\ DeleteFlag(tid) \in session_state.truthy
                    /\ DeleteCheckbox(tid) \in session_state.truthy
            /\ (TestsDeleted(tid) /\ ~TankDeleted(tid))
                 => /\ last'.op = "confirm_clear_tests" /\ last'.tank_id = tid
                    /\ ClearFlag(tid) \in session_state.truthy
                    /\ ClearCheckbox(tid) \in session_state.truthy
       /\ last'.op \in {"cancel_delete_tank", "cancel_clear_tests"}
            => UNCHANGED <<tanks, custom_ranges, water_tests, records>>
       /\ last'.op \in {"confirm_delete_tank", "cancel_delete_tank"}
            => DeleteFlag(last'.tank_id) \notin session_state'.truthy
       /\ last'.op \in {"confirm_clear_tests", "cancel_clear_tests"}
            => ClearFlag(last'.tank_id) \notin session_state'.truthy
       /\ \A tid \in DOMAIN tanks :
            (DeleteFlag(tid) \in session_state'.truthy
               /\ DeleteFlag(tid) \notin session_state.truthy)
                 => (last'.op = "prepare_delete_tank" /\ tanks' = tanks
                     /\ water_tests' = water_tests)
       /\ \A tid \in DOMAIN tanks :
            (ClearFlag(tid) \in session_state'.truthy
               /\ ClearFlag(tid) \notin session_state.truthy)
                 => (last'.op = "prepare_clear_tests" /\ tanks' = tanks
                     /\ water_tests' = water_tests)]_vars

\* tank 1 and its water test were deleted by the Yes button, tank 2 stays
\* and is selected, and no flag of tank 1 is left
C29_Witness ==
    /\ last.op = "confirm_delete_tank" /\ last.tank_id = 1 /\ last.raised = "none"
    /\ DOMAIN tanks = {2}
    /\ session_state.tank_id = 2
    /\ water_tests # {} /\ \A t \in water_tests : t.tank_id # 1
    /\ DeleteFlag(1) \notin session_state.truthy

\* the tests of tank 1 were cleared by the Yes button and the tank stays
TestsCleared ==
    /\ last.op = "confirm_clear_tests" /\ last.tank_id = 1 /\ last.raised = "none"
    /\ 1 \in DOMAIN tanks
    /\ instances > 0
    /\ \A t \in water_tests : t.tank_id # 1

(***************************************************************************)
(* SpecValidate: saves of records that differ from the form's defaults in  *)
(* one numeric field, taken at and around the bounds of its range, and in  *)
(* the indicator.                                                          *)
(***************************************************************************)
\* the values tried for a numeric field: one step below the range, its two
\* bounds, one step above it, NaN, text that is no number, text that is
\* one, and the empty string
BoundaryArgs(field) ==
    {Num(SaveRanges[field][1] - 1), Num(SaveRanges[field][1]),
     Num(SaveRanges[field][2]), Num(SaveRanges[field][2] + 1),
     NaN, Str("abc"), Str("7.5"), Str("")}

\* the records tried: the defaults of the form with one of four fields
\* replaced by a value at or around its own bounds, and the indicator
\* replaced
ValidateArgs ==
    UNION {{[[FormDefaults EXCEPT ![field] = v] EXCEPT !.co2_indicator = c] :
               v \in BoundaryArgs(field),
               c \in {Str("Green"), Str("Purple")}} :
           field \in {"ph", "ammonia", "temperature", "kh"}}

SaveBoundary == SaveOf(ValidateArgs)

NextValidate == SaveBoundary

SpecValidate == InitSave /\ [][NextValidate]_vars

\* a numeric field of a record holds a value: the key is there and the
\* value is neither None nor the empty string
Given(data, f) == data[f] \notin {Absent, None, Str("")}

\* the value is a number inside the accepted range of the field, bounds
\* included
InRange(f, v) ==
    IsNum(v) /\ SaveRanges[f][1] <= v.n /\ v.n <= SaveRanges[f][2]

\* the stored rows keep every numeric value inside its range
StoredInRange(rows) ==
    \A r \in rows : \A f \in NumericFields : r[f] = None \/ InRange(f, r[f])

BoundStored ==
    /\ last.op = "save" /\ last.data.ph = Num(1401) /\ last.tank_id = 1
    /\ last.data.co2_indicator = Str("Green")
    /\ last.raised = "ValueError"
    /\ \E r \in water_tests : r.ph = Num(1400)
    /\ Cardinality(water_tests) = 1

\* a record whose pH is the text "7.5" was saved with the pH 7.5
NumericTextStored ==
    /\ last.op = "save" /\ last.data.ph = Str("7.5")
    /\ last.raised = "none" /\ last.row.ph = Num(750)

====
